---------------------------- MODULE Spec2Model ----------------------------
(***************************************************************************)
(* A model of pyjags' multi-chain orchestration core:                      *)
(*   - const_time_partition   (pyjags/progressbar.py)                      *)
(*   - MultiConsole           (pyjags/model.py)                            *)
(*   - Model.sample / Model._update_parallel (pyjags/model.py)             *)
(*   - MultiConsole.dumpMonitors, Model.__init__, dict_to_jags and         *)
(*     dict_from_jags (pyjags/model.py)                                    *)
(*   - ProgressBar.update under `synchronized` (pyjags/progressbar.py)     *)
(*   - the accessors that decode engine data, Model._init_parameters and   *)
(*     the RNG of each chain, Model.adapt (pyjags/model.py)                *)
(*   - ProgressBar.render and the progress counter of an update            *)
(*     (pyjags/progressbar.py, pyjags/model.py)                            *)
(*   - load_module            (pyjags/modules.py)                          *)
(*   - the refresh period of Model (pyjags/model.py)                       *)
(*                                                                         *)
(* Each component has its own specification over its own variables; the    *)
(* variables of the other components stay at their idle value.             *)
(*                                                                         *)
(* Time is counted in integer clock ticks.  The engine (pyjags.console,    *)
(* a C++ extension that is not part of the Python sources) is modelled by  *)
(* its interface: every engine call either takes effect or raises.         *)
(***************************************************************************)
EXTENDS Integers, Sequences, FiniteSets, TLC

VARIABLES
    gen,                \* the generator object of one const_time_partition call
    mc,                 \* the MultiConsole object under construction / in use
    mcx,                \* local variables of MultiConsole.__init__ and log of routed calls
    monitors,           \* per engine instance, the set of variables it monitors
    sx,                 \* the Model.sample call in progress: its locals and position
    px,                 \* the calling thread inside Model._update_parallel
    executor,           \* the ThreadPoolExecutor: its work queue and its threads
    w,                  \* per console, the update(console, chains) work item
    interrupt,          \* the threading.Event `interrupt`
    dm,                 \* the MultiConsole.dumpMonitors call in progress
    pb,                 \* a ProgressBar object, the lock of `synchronized`, the file
    upd,                \* per thread, its ProgressBar.update call in progress
    ctor,               \* the Model.__init__ call and the Model it constructs
    elog,               \* the calls made on self.console, in order
    eng,                \* per engine instance, its iterations and its chains' seeds
    run,                \* a sampling run: a Model and one sample call on it
    codec,              \* a round trip through dict_to_jags and dict_from_jags
    rng,                \* the _init_parameters call that assigns the generators
    pr,                 \* a ProgressBar during one _update call, and its last render
    mods,               \* the module registry: loaded_modules, the engine's list, the calls made
    rf                  \* the refresh period: the arguments of Model, self.refresh_seconds, the periods used by each call

vars == <<gen, mc, mcx, monitors, sx, px, executor, w, interrupt, dm, pb, upd,
          ctor, elog, eng, run, codec, rng, pr, mods, rf>>

partitionVars == <<gen>>
routerVars == <<mc, mcx>>
sampleVars == <<monitors, sx>>
parallelVars == <<px, executor, w, interrupt>>
dumpVars == <<dm>>
barVars == <<pb, upd>>
ctorVars == <<ctor, elog>>
runVars == <<eng, run>>
codecVars == <<codec>>

rngVars == <<rng>>
renderVars == <<pr>>
moduleVars == <<mods>>
refreshVars == <<rf>>
\* the variables of the components specified further below
laterVars == <<rngVars, renderVars, moduleVars, refreshVars>>

moreVars == <<dumpVars, barVars, ctorVars, runVars, codecVars, laterVars>>

\* for each of them, the variables of the others
notDump == <<barVars, ctorVars, runVars, codecVars, laterVars>>
notBar == <<dumpVars, ctorVars, runVars, codecVars, laterVars>>
notCtor == <<dumpVars, barVars, runVars, codecVars, laterVars>>
notRun == <<dumpVars, barVars, ctorVars, codecVars, laterVars>>
notCodec == <<dumpVars, barVars, ctorVars, runVars, laterVars>>
\* all groups but rngVars: notRng
notRng ==
    <<dumpVars, barVars, ctorVars, runVars, codecVars, renderVars,
      moduleVars, refreshVars>>
\* all groups but renderVars: notRender
notRender ==
    <<dumpVars, barVars, ctorVars, runVars, codecVars, rngVars,
      moduleVars, refreshVars>>
\* all groups but moduleVars: notModule
notModule ==
    <<dumpVars, barVars, ctorVars, runVars, codecVars, rngVars,
      renderVars, refreshVars>>
\* all groups but refreshVars: notRefresh
notRefresh ==
    <<dumpVars, barVars, ctorVars, runVars, codecVars, rngVars,
      renderVars, moduleVars>>

(***************************************************************************)
(* Bounds of the model.                                                    *)
(***************************************************************************)
MaxTotal == 5           \* largest `iterations` given to const_time_partition
MaxPeriod == 3          \* largest `period`, in clock ticks
MaxElapsed == 4         \* largest timer reading, in clock ticks since start
MaxChains == 7          \* largest `chains` given to MultiConsole
MaxChainsPerThread == 3 \* largest `chains_per_thread` given to MultiConsole
NumConsoles == 3        \* engine instances of the Model that samples / updates
MaxCalls == 2           \* sample calls made on one Model
Threads == 2            \* self.threads, the size of the thread pool
MaxIterations == 2      \* largest `iterations` of a parallel update
BarThreads == 2         \* threads that call ProgressBar.update
MaxSteps == 2           \* largest `steps` given to ProgressBar.update
MaxSent == 3            \* largest sum of the `steps` of all update calls
MaxCtorChains == 2      \* largest `chains` given to Model
MaxApiCalls == 2        \* update and sample calls made on one Model
MaxLen == 2             \* longest array given to dict_to_jags
MaxModuleCalls == 4     \* load_module calls made in one process
MaxFairIterations == 1  \* largest `iterations` of a parallel update run under fairness
RefreshTicks == 2       \* self.refresh_seconds, in clock ticks

Min(a, b) == IF a < b THEN a ELSE b

RECURSIVE Sum(_)
Sum(s) == IF s = <<>> THEN 0 ELSE Head(s) + Sum(Tail(s))

(***************************************************************************)
(* const_time_partition(iterations, period, timer)                         *)
(*                                                                         *)
(* The generator is a record: its arguments, its locals `left` and `next`, *)
(* the last timer reading (as ticks since `start`), its position and the   *)
(* sequence of values it has yielded so far.                               *)
(***************************************************************************)

\* progressbar.py:74 with the timer ignored (mutant of Estimate)
EstimateNoTimer(period, done, elapsed, next) == 2 * next

\* progressbar.py:74   next = int(period * done / elapsed) if elapsed > 0
\*                            else 2 * next
\* (done >= 0, elapsed > 0: int() truncates towards zero, i.e. floor)
Estimate(period, done, elapsed, next) ==
    IF elapsed > 0 THEN (period * done) \div elapsed ELSE 2 * next

\* progressbar.py:75-76 with the lower clamp left out (mutant of ClampLow)
ClampLowMissing(n) == n

\* progressbar.py:75-76   if next < 1: next = 1
ClampLow(n) == IF n < 1 THEN 1 ELSE n

\* progressbar.py:77-78 left out (mutant of ClampHigh)
ClampHighMissing(n, left) == n

\* progressbar.py:77-78   if next > left: next = left
ClampHigh(n, left) == IF n > left THEN left ELSE n

\* progressbar.py:66-70: the generator up to its first `yield next` (or to
\* its end when the loop condition `left > 0` fails at once)
GenStart(iterations, period) ==
    [iterations |-> iterations,
     period     |-> period,
     left       |-> iterations,
     next       |-> 1,
     elapsed    |-> 0,
     pc         |-> IF iterations > 0 THEN "yielded" ELSE "done",
     out        |-> IF iterations > 0 THEN <<1>> ELSE <<>>]

\* progressbar.py:71-78 and back to 69-70: the generator is resumed, reads
\* the timer (now - start = e), updates left and next, and either yields the
\* next batch or ends
GenResume(g, e) ==
    LET left == g.left - g.next
        done == g.iterations - left
        nxt  == ClampHigh(ClampLow(Estimate(g.period, done, e, g.next)), left)
    IN [g EXCEPT !.left    = left,
                 !.next    = nxt,
                 !.elapsed = e,
                 !.pc      = IF left > 0 THEN "yielded" ELSE "done",
                 !.out     = IF left > 0 THEN Append(g.out, nxt) ELSE g.out]

GenIdle == [iterations |-> 0, period |-> 1, left |-> 0, next |-> 1,
            elapsed |-> 0, pc |-> "idle", out |-> <<>>]

----------------------------------------------------------------------------
(***************************************************************************)
(* MultiConsole.__init__, compile and the routed calls                     *)
(*                                                                         *)
(* mc is the object: `consoles` is the number of Console objects appended  *)
(* to self.consoles (a console is named by its 1-based position there),    *)
(* `chains_per_console` the list of shard sizes, `chains` the dict from    *)
(* outer chain number to <<console, inner chain>>, `compiled` the chain    *)
(* count each engine instance was compiled with.                           *)
(* mcx holds the locals of __init__ and the target of the last routed call.*)
(***************************************************************************)
McIdle == [consoles |-> 0, chains_per_console |-> <<>>, chains |-> <<>>,
           compiled |-> <<>>]
McxIdle == [pc |-> "idle", chains |-> 0, chains_per_thread |-> 1,
            total |-> 0, outer_chain |-> 1, console_chains |-> 0,
            inner_chain |-> 0, routed |-> <<>>]

\* d[k] = v on a Python dict
DictSet(d, k, v) ==
    [x \in (DOMAIN d) \cup {k} |-> IF x = k THEN v ELSE d[x]]

\* model.py:88-96: the state at the first test of `while chains > 0`
McStart(chains, chains_per_thread) ==
    [pc |-> "while", chains |-> chains, chains_per_thread |-> chains_per_thread,
     total |-> chains, outer_chain |-> 1, console_chains |-> 0,
     inner_chain |-> 0, routed |-> <<>>]

\* model.py:99 without the min (mutant of ConsoleChains)
ConsoleChainsNoMin(chains_per_thread, chains) == chains_per_thread

\* model.py:99   console_chains = min(chains_per_thread, chains)
ConsoleChains(chains_per_thread, chains) == Min(chains_per_thread, chains)

\* model.py:105 keyed by the inner chain number (mutant of ChainKey)
ChainKeyInner(outer_chain, inner_chain) == inner_chain

\* model.py:105: the key under which the pair is stored
ChainKey(outer_chain, inner_chain) == outer_chain

\* model.py:97-102: the loop test; when it holds a console is created and
\* appended with its shard size, and the inner for loop is entered
McWhile ==
    /\ mcx.pc = "while"
    /\ IF mcx.chains > 0
       THEN LET cc == ConsoleChains(mcx.chains_per_thread, mcx.chains) IN
            /\ mc' = [mc EXCEPT !.consoles = @ + 1,
                                !.chains_per_console = Append(@, cc)]
            /\ mcx' = [mcx EXCEPT !.console_chains = cc,
                                  !.inner_chain = 1,
                                  !.pc = "for"]
       ELSE /\ mcx' = [mcx EXCEPT !.pc = "constructed"]
            /\ mc' = mc
    /\ UNCHANGED <<partitionVars, moreVars, sampleVars, parallelVars>>

\* model.py:104-108: one pass of `for inner_chain in range(1, console_chains+1)`,
\* or, when the range is exhausted, `chains -= chains_per_thread`
McFor ==
    /\ mcx.pc = "for"
    /\ IF mcx.inner_chain <= mcx.console_chains
       THEN /\ mc' = [mc EXCEPT !.chains =
                        DictSet(@, ChainKey(mcx.outer_chain, mcx.inner_chain),
                                <<mc.consoles, mcx.inner_chain>>)]
            /\ mcx' = [mcx EXCEPT !.outer_chain = @ + 1,
                                  !.inner_chain = @ + 1]
       ELSE /\ mcx' = [mcx EXCEPT !.chains = @ - mcx.chains_per_thread,
                                  !.pc = "while"]
            /\ mc' = mc
    /\ UNCHANGED <<partitionVars, moreVars, sampleVars, parallelVars>>

\* model.py:114-117: compile(data, chains, generate_data); the assert holds
\* the caller to chains = len(self.chains); every console is compiled with
\* its own shard size
McCompile ==
    /\ mcx.pc = "constructed"
    /\ mcx.total = Cardinality(DOMAIN mc.chains)
    /\ mc' = [mc EXCEPT !.compiled = mc.chains_per_console]
    /\ mcx' = [mcx EXCEPT !.pc = "compiled"]
    /\ UNCHANGED <<partitionVars, moreVars, sampleVars, parallelVars>>

\* model.py:119-125, 153-155: setRNGname, setParameters, dumpState look the
\* chain up in self.chains and call the console found there
McRoute(chain) ==
    /\ mcx.pc = "compiled"
    /\ chain \in DOMAIN mc.chains
    /\ mcx' = [mcx EXCEPT !.routed = mc.chains[chain]]
    /\ UNCHANGED <<mc, partitionVars, moreVars, sampleVars, parallelVars>>

----------------------------------------------------------------------------
(***************************************************************************)
(* Model.sample on a Model whose console is a MultiConsole of NumConsoles  *)
(* engine instances.                                                       *)
(*                                                                         *)
(* monitors[c] is the monitor set of instance c.  sx holds the call:       *)
(* `vars` and `monitored` as in the source, i the position in `vars`,      *)
(* k the position in `monitored` (finally clause), j the console a         *)
(* broadcast loop of MultiConsole has reached, exc the exception in        *)
(* flight, kbd whether a KeyboardInterrupt was delivered to this call.     *)
(***************************************************************************)
Consoles == 1..NumConsoles

\* variables of the JAGS model that can be monitored
Names == {"x", "y"}

\* the `vars` arguments tried: lists of distinct names (None is all names)
VarLists == {<<"x">>, <<"y">>, <<"x", "y">>}

MonitorsIdle == [c \in Consoles |-> {}]
SxIdle == [pc |-> "ready", vars |-> <<>>, monitored |-> <<>>, i |-> 1, j |-> 1,
           k |-> 1, exc |-> "none", kbd |-> FALSE, calls |-> 0]

\* Console.setMonitor(name, thin, type) when it does not raise
ConsoleSetMonitor(m, c, name) == [m EXCEPT ![c] = @ \cup {name}]

\* Console.clearMonitor(name, type) when it does not raise
ConsoleClearMonitor(m, c, name) == [m EXCEPT ![c] = @ \ {name}]

\* model.py:388-392: sample is called; vars is given and not empty
SampleCall(vs) ==
    /\ sx.pc \in {"ready", "returned", "raised"}
    /\ sx.calls < MaxCalls
    /\ sx' = [pc |-> "setMonitor", vars |-> vs, monitored |-> <<>>, i |-> 1,
              j |-> 1, k |-> 1, exc |-> "none", kbd |-> FALSE,
              calls |-> sx.calls + 1]
    /\ UNCHANGED <<partitionVars, moreVars, routerVars, monitors, parallelVars>>

\* model.py:393 -> 127-129: the call c.setMonitor of the broadcast loop on
\* console j returns
SetMonitorReturns ==
    /\ sx.pc = "setMonitor"
    /\ monitors' = ConsoleSetMonitor(monitors, sx.j, sx.vars[sx.i])
    /\ sx' = IF sx.j < NumConsoles
             THEN [sx EXCEPT !.j = @ + 1]
             ELSE [sx EXCEPT !.pc = "append"]
    /\ UNCHANGED <<partitionVars, moreVars, routerVars, parallelVars>>

\* model.py:398: control enters the finally clause with exception e
EnterFinally(e) == [sx EXCEPT !.pc = "finally", !.k = 1, !.exc = e]

\* model.py:393 -> 127-129: the call c.setMonitor on console j raises; the
\* exception leaves the broadcast loop and the try block
SetMonitorRaises ==
    /\ sx.pc = "setMonitor"
    /\ sx' = EnterFinally("JagsError")
    /\ UNCHANGED <<partitionVars, moreVars, routerVars, monitors, parallelVars>>

\* model.py:394 and the loop of 392
SampleAppend ==
    /\ sx.pc = "append"
    /\ sx' = IF sx.i < Len(sx.vars)
             THEN [sx EXCEPT !.monitored = Append(@, sx.vars[sx.i]),
                             !.i = @ + 1, !.j = 1, !.pc = "setMonitor"]
             ELSE [sx EXCEPT !.monitored = Append(@, sx.vars[sx.i]),
                             !.pc = "update"]
    /\ UNCHANGED <<partitionVars, moreVars, routerVars, monitors, parallelVars>>

\* model.py:395: self._update returns.  _update (320-360) calls neither
\* setMonitor nor clearMonitor; its own steps are those of the parallel
\* update below.
SampleUpdateReturns ==
    /\ sx.pc = "update"
    /\ sx' = [sx EXCEPT !.pc = "dumpMonitors", !.j = 1]
    /\ UNCHANGED <<partitionVars, moreVars, routerVars, monitors, parallelVars>>

\* model.py:395: self._update raises the failure of a worker
SampleUpdateRaises ==
    /\ sx.pc = "update"
    /\ sx' = EnterFinally("WorkerError")
    /\ UNCHANGED <<partitionVars, moreVars, routerVars, monitors, parallelVars>>

\* model.py:396-397 -> 135-138: c.dumpMonitors on console j returns
DumpMonitorsReturns ==
    /\ sx.pc = "dumpMonitors"
    /\ sx' = IF sx.j < NumConsoles
             THEN [sx EXCEPT !.j = @ + 1]
             ELSE EnterFinally("none")
    /\ UNCHANGED <<partitionVars, moreVars, routerVars, monitors, parallelVars>>

\* model.py:396 -> 136: c.dumpMonitors on console j raises
DumpMonitorsRaises ==
    /\ sx.pc = "dumpMonitors"
    /\ sx' = EnterFinally("JagsError")
    /\ UNCHANGED <<partitionVars, moreVars, routerVars, monitors, parallelVars>>

\* model.py:399: `for name in monitored`; when the list is exhausted the
\* call returns samples (401) or re-raises the exception in flight
SampleFinally ==
    /\ sx.pc = "finally"
    /\ sx' = IF sx.k <= Len(sx.monitored)
             THEN [sx EXCEPT !.pc = "clearMonitor", !.j = 1]
             ELSE [sx EXCEPT !.pc = IF sx.exc = "none" THEN "returned"
                                                       ELSE "raised"]
    /\ UNCHANGED <<partitionVars, moreVars, routerVars, monitors, parallelVars>>

\* model.py:400 -> 131-133: c.clearMonitor on console j returns
ClearMonitorReturns ==
    /\ sx.pc = "clearMonitor"
    /\ monitors' = ConsoleClearMonitor(monitors, sx.j, sx.monitored[sx.k])
    /\ sx' = IF sx.j < NumConsoles
             THEN [sx EXCEPT !.j = @ + 1]
             ELSE [sx EXCEPT !.k = @ + 1, !.pc = "finally"]
    /\ UNCHANGED <<partitionVars, moreVars, routerVars, parallelVars>>

\* model.py:400 -> 131-133: c.clearMonitor on console j raises; the
\* exception leaves the finally clause and the call
ClearMonitorRaises ==
    /\ sx.pc = "clearMonitor"
    /\ sx' = [sx EXCEPT !.pc = "raised", !.exc = "JagsError"]
    /\ UNCHANGED <<partitionVars, moreVars, routerVars, monitors, parallelVars>>

\* KeyboardInterrupt is raised in the calling thread: inside the try block
\* (391-397) control goes to the finally clause, inside the finally clause
\* (398-400) it leaves the call.  At most one is delivered per call.
SampleInterrupt ==
    /\ ~sx.kbd
    /\ sx.pc \in {"setMonitor", "append", "update", "dumpMonitors",
                  "finally", "clearMonitor"}
    /\ sx' = IF sx.pc \in {"finally", "clearMonitor"}
             THEN [sx EXCEPT !.pc = "raised", !.exc = "KeyboardInterrupt",
                             !.kbd = TRUE]
             ELSE [EnterFinally("KeyboardInterrupt") EXCEPT !.kbd = TRUE]
    /\ UNCHANGED <<partitionVars, moreVars, routerVars, monitors, parallelVars>>

----------------------------------------------------------------------------
(***************************************************************************)
(* A sampling run: a Model is constructed, in sequential mode on one       *)
(* Console or in threaded mode on a MultiConsole, with an explicit         *)
(* generator name and seed for every chain, and sample(iterations) is      *)
(* called on it once.                                                      *)
(*                                                                         *)
(* eng[c] is engine instance c: iters, the iterations it has run, and      *)
(* seeds, for each of its chains the seed it was given.  The engine is     *)
(* deterministic: sample t of a chain is a function of the chain's seed    *)
(* and of t, written <<seed, t>>.  run holds the arguments, the position   *)
(* of the caller and the samples returned for the monitored variable.      *)
(***************************************************************************)
EngIdle == [c \in Consoles |-> [iters |-> 0, seeds |-> <<>>]]

RunIdle == [pc |-> "idle", use_threads |-> FALSE, chains |-> 1,
            iterations |-> 0, samples |-> <<>>,
            adapting |-> FALSE, result |-> FALSE, checked |-> <<>>,
            answers |-> <<>>,
            progress |-> [iterations_done |-> 0, iterations_total |-> 0]]

\* progressbar.py:103-114, model.py:326: the progress bar _update creates
\* for a call over `chains` chains and `iterations` iterations
ProgressBar(chains, iterations) ==
    [iterations_done |-> 0, iterations_total |-> chains * iterations]

\* progressbar.py:126-127: update(steps), which holds the lock of
\* `synchronized` while it adds to the counter
ProgressUpdate(progress, steps) ==
    [progress EXCEPT !.iterations_done = @ + steps]

\* every worker reports as if it ran one chain (mutant of ShardChains)
ShardChainsOne(c) == 1

\* model.py:350-351: the `chains` of the work item of console c, its entry
\* of self.console.chains_per_console (one chain per instance where the
\* MultiConsole is not constructed)
ShardChains(c) ==
    IF c \in DOMAIN mc.chains_per_console THEN mc.chains_per_console[c] ELSE 1

\* the values of chains_per_thread tried in threaded mode
ChainsPerThreadTried == {1, 2}

\* the '.RNG.seed' given to logical chain k in `init`
Seed(k) == k

\* Console.update(steps) on engine e, when it does not raise
ConsoleUpdate(e, steps) == [e EXCEPT !.iters = @ + steps]

\* Console.dumpMonitors of engine e for a variable monitored since e was
\* initialized, thin = 1: per chain, one sample per iteration
ConsoleTrace(e) ==
    [j \in DOMAIN e.seeds |-> [t \in 1..e.iters |-> <<e.seeds[j], t>>]]
----------------------------------------------------------------------------
(***************************************************************************)
(* Model._update_parallel(progress, iterations) on a MultiConsole of       *)
(* NumConsoles engine instances with a pool of Threads threads.            *)
(*                                                                         *)
(* px        the calling thread: pc, the number of work items submitted,   *)
(*           the exception in flight, and where a KeyboardInterrupt was    *)
(*           delivered (at most one per call).                             *)
(* executor  queue: the consoles whose work item is submitted and not yet  *)
(*           taken; busy: the number of pool threads running a work item   *)
(*           (pool threads are interchangeable).                           *)
(* w[c]      the work item update(console c, chains): pc, its generator    *)
(*           (left, next), runners: the number of pool threads running it, *)
(*           inflight: the number of threads inside console.update of c,   *)
(*           late: it has begun a batch after some worker had failed.      *)
(***************************************************************************)
WIdle == [pc |-> "none", gen |-> GenIdle, runners |-> 0, inflight |-> 0,
          late |-> FALSE]

ParallelIdle ==
    /\ px = [pc |-> "idle", iterations |-> 0, submitted |-> 0, exc |-> "none",
             kbd |-> "none"]
    /\ executor = [queue |-> <<>>, busy |-> 0]
    /\ w = [c \in Consoles |-> WIdle]
    /\ interrupt = FALSE

\* the generator of a work item keeps `left` and `next`; the values already
\* yielded and the previous timer reading are not kept
Forget(g) == [g EXCEPT !.out = <<>>, !.elapsed = 0]

\* a Future of fs: its state as concurrent.futures names it
Future(c) ==
    CASE w[c].pc = "none" -> "none"
      [] w[c].pc = "pending" -> "PENDING"
      [] w[c].pc \in {"check", "call", "update", "report"} -> "RUNNING"
      [] w[c].pc = "failed" -> "FINISHED_EXCEPTION"
      [] OTHER -> "FINISHED"

SomeWorkerFailed == \E c \in Consoles : w[c].pc = "failed"

\* no pool thread runs a work item and none is queued
WorkersStopped ==
    /\ executor.queue = <<>>
    /\ executor.busy = 0

\* a list comprehension that binds every work item to the first console
\* (mutant of WorkItemConsole)
WorkItemFirstConsole(i) == 1

\* model.py:349-351: the i-th work item is update(console i, chains i), the
\* i-th pair of zip(self.console.consoles, self.console.chains_per_console)
WorkItemConsole(i) == i

\* model.py:349-351: executor.submit(update, console, chains) for the next
\* console of the list comprehension; after the last one the try block is
\* entered and wait() called
Submit ==
    /\ px.pc = "submit"
    /\ LET i == px.submitted + 1
           c == WorkItemConsole(i)
       IN
       /\ w' = [w EXCEPT ![c].pc = "pending"]
       /\ executor' = [executor EXCEPT !.queue = Append(@, c)]
       /\ px' = [px EXCEPT !.submitted = i,
                           !.pc = IF i = NumConsoles THEN "wait" ELSE "submit"]
    /\ UNCHANGED <<interrupt, partitionVars, moreVars, routerVars, sampleVars>>

\* a pool thread that is lost with the work item it ran (mutant of
\* ThreadFreed)
ThreadLost(e) == e

\* the work item of console c ends (update() returns or raises): its pool
\* thread is idle again
ThreadFreed(e) == [e EXCEPT !.busy = @ - 1]

\* ThreadPoolExecutor worker / model.py:343-344: an idle pool thread takes
\* the oldest work item and runs update(console, chains) up to the first
\* value of const_time_partition(iterations, self.refresh_seconds)
Take ==
    /\ executor.busy < Threads
    /\ executor.queue # <<>>
    /\ LET c == Head(executor.queue)
           g == GenStart(px.iterations, RefreshTicks)
       IN IF g.pc = "yielded"
          THEN /\ w' = [w EXCEPT ![c].pc = "check", ![c].gen = Forget(g),
                                 ![c].runners = @ + 1]
               /\ executor' = [executor EXCEPT !.queue = Tail(@),
                                               !.busy = @ + 1]
          ELSE /\ w' = [w EXCEPT ![c].pc = "finished", ![c].gen = Forget(g)]
               /\ executor' = [executor EXCEPT !.queue = Tail(@)]
    /\ UNCHANGED <<px, interrupt, partitionVars, moreVars, routerVars, sampleVars>>

\* a flag test that never sees the flag (mutant of FlagIsSet)
FlagNeverSeen == FALSE

\* model.py:345   interrupt.is_set()
FlagIsSet == interrupt

\* model.py:345-346: the test of the flag at the top of the loop body; when
\* set, break: update() returns and the thread is idle again
CheckFlag(c) ==
    /\ w[c].pc = "check"
    /\ IF FlagIsSet
       THEN /\ w' = [w EXCEPT ![c].pc = "finished", ![c].runners = @ - 1]
            /\ executor' = ThreadFreed(executor)
       ELSE /\ w' = [w EXCEPT ![c].pc = "call"]
            /\ executor' = executor
    /\ UNCHANGED <<px, interrupt, partitionVars, moreVars, routerVars, sampleVars>>

\* model.py:347: console.update(steps) is entered
CallUpdate(c) ==
    /\ w[c].pc = "call"
    /\ w' = [w EXCEPT ![c].pc = "update",
                      ![c].inflight = @ + 1,
                      ![c].late = @ \/ SomeWorkerFailed]
    /\ UNCHANGED <<px, executor, interrupt, partitionVars, moreVars, routerVars,
                   sampleVars>>

\* model.py:347: console.update(steps) returns
UpdateReturns(c) ==
    /\ w[c].pc = "update"
    /\ w' = [w EXCEPT ![c].pc = "report", ![c].inflight = @ - 1]
    /\ eng' = [eng EXCEPT ![c] = ConsoleUpdate(@, w[c].gen.next)]
    /\ UNCHANGED <<px, executor, interrupt, run, partitionVars, notRun,
                   routerVars, sampleVars>>

\* a failing worker that sets the flag itself (mutant of FlagAfterFailure)
FlagSetByFailure == TRUE

\* model.py:343-348: update() has no handler: an exception of console.update
\* leaves the flag as it is
FlagAfterFailure == interrupt

\* model.py:347: console.update(steps) raises; the exception ends update()
\* and is stored in the future
UpdateRaises(c) ==
    /\ w[c].pc = "update"
    /\ w' = [w EXCEPT ![c].pc = "failed", ![c].inflight = @ - 1,
                      ![c].runners = @ - 1]
    /\ executor' = ThreadFreed(executor)
    /\ interrupt' = FlagAfterFailure
    /\ UNCHANGED <<px, partitionVars, moreVars, routerVars, sampleVars>>

\* model.py:348 and 344: progress.update(chains * steps), then the generator
\* is resumed with a timer reading e; when it ends, update() returns
Report(c) ==
    /\ w[c].pc = "report"
    /\ \E e \in 0..MaxElapsed :
          LET g == GenResume(w[c].gen, e) IN
          IF g.pc = "yielded"
          THEN /\ w' = [w EXCEPT ![c].pc = "check", ![c].gen = Forget(g)]
               /\ executor' = executor
          ELSE /\ w' = [w EXCEPT ![c].pc = "finished", ![c].gen = Forget(g),
                                 ![c].runners = @ - 1]
               /\ executor' = ThreadFreed(executor)
    /\ run' = [run EXCEPT !.progress =
                  ProgressUpdate(@, ShardChains(c) * w[c].gen.next)]
    /\ UNCHANGED <<px, interrupt, eng, partitionVars, notRun, routerVars,
                   sampleVars>>

\* model.py:353: wait(fs, return_when=ALL_COMPLETED) returns when every
\* future is finished
WaitReturns ==
    /\ px.pc = "wait"
    /\ \A c \in Consoles : Future(c) \in {"FINISHED", "FINISHED_EXCEPTION"}
    /\ px' = [px EXCEPT !.pc = "result"]
    /\ UNCHANGED <<executor, w, interrupt, partitionVars, moreVars, routerVars,
                   sampleVars>>

\* model.py:354-355: `for d in done: d.result()` raises the exception of a
\* failed future, if there is one
ResultException == IF SomeWorkerFailed THEN "WorkerError" ELSE "none"

\* model.py:354-357, 360: the results are collected; what they raise is not
\* a KeyboardInterrupt and leaves the try statement
CollectResults ==
    /\ px.pc = "result"
    /\ px' = [px EXCEPT !.pc = "shutdown", !.exc = ResultException]
    /\ UNCHANGED <<executor, w, interrupt, partitionVars, moreVars, routerVars,
                   sampleVars>>

\* an executor shut down with wait=False (mutant of ShutdownJoined)
ShutdownNoWait == TRUE

\* ThreadPoolExecutor.__exit__: shutdown(wait=True) joins every pool thread;
\* the threads end when the queue is empty
ShutdownJoined == WorkersStopped

\* model.py:338: the with statement is left: __exit__ returns and the call
\* returns, or re-raises the exception in flight
ShutdownReturns ==
    /\ px.pc = "shutdown"
    /\ ShutdownJoined
    /\ px' = [px EXCEPT !.pc = IF px.exc = "none" THEN "returned" ELSE "raised"]
    /\ UNCHANGED <<executor, w, interrupt, partitionVars, moreVars, routerVars,
                   sampleVars>>

\* model.py:358-360   except KeyboardInterrupt: interrupt.set(); raise
ExceptKeyboardInterrupt == TRUE

\* KeyboardInterrupt is raised in the calling thread, at most once per call:
\*  - in the list comprehension (349-351), outside the try statement: it
\*    propagates to the with statement, whose __exit__ joins the threads;
\*  - inside the try block (353-357): the except clause runs, then as above;
\*  - inside __exit__ (thread join): it leaves the call at once.
KeyboardInterrupt ==
    /\ px.kbd = "none"
    /\ px.pc \in {"submit", "wait", "result", "shutdown"}
    /\ px' = [px EXCEPT !.kbd = px.pc,
                        !.exc = "KeyboardInterrupt",
                        !.pc = IF px.pc = "shutdown" THEN "raised"
                                                     ELSE "shutdown"]
    /\ interrupt' = IF px.pc \in {"wait", "result"}
                    THEN ExceptKeyboardInterrupt
                    ELSE interrupt
    /\ UNCHANGED <<executor, w, partitionVars, moreVars, routerVars, sampleVars>>

----------------------------------------------------------------------------
(***************************************************************************)
(* MultiConsole.dumpMonitors(monitor_type, flat)                           *)
(*                                                                         *)
(* An array returned by an engine instance is modelled by its last axis,   *)
(* the chain axis: a sequence with one entry per chain of that instance.   *)
(* The entry of inner chain j of console i is the pair <<i, j>>, standing  *)
(* for the samples that chain has produced.  dm holds the call: mon the    *)
(* monitor set of every console when the call is made, i the console the   *)
(* list comprehension has reached, ds the dumps collected, out the result. *)
(***************************************************************************)
DmIdle == [pc |-> "idle", mon |-> <<>>, i |-> 1, ds |-> <<>>, out |-> <<>>]

\* Console.dumpMonitors(type, False) of console i, which runs n chains and
\* monitors `names`, when it does not raise
ConsoleDumpMonitors(i, n, names) == [k \in names |-> [j \in 1..n |-> <<i, j>>]]

\* the dumps taken last console first (mutant of DumpOrder)
DumpOrderReversed(ds) == [i \in 1..Len(ds) |-> ds[Len(ds) + 1 - i]]

\* model.py:137  `for d in ds`: the dumps in the order of self.consoles
DumpOrder(ds) == ds

\* np.concatenate(arrays, axis=-1) on the chain axis
RECURSIVE Concatenate(_)
Concatenate(arrays) ==
    IF arrays = <<>> THEN <<>> ELSE Head(arrays) \o Concatenate(Tail(arrays))

\* model.py:138  set(k for d in ds for k in d.keys())
DumpKeys(ds) == UNION {DOMAIN ds[i] : i \in 1..Len(ds)}

\* model.py:135: dumpMonitors is called on a compiled MultiConsole.  All
\* consoles monitor the names S; the first `upto` of them may in addition
\* hold monitors L that an earlier failed broadcast left behind.
DumpCall ==
    /\ mcx.pc = "compiled"
    /\ dm.pc = "idle"
    /\ \E S \in SUBSET Names, L \in SUBSET Names, upto \in 0..mc.consoles :
          dm' = [dm EXCEPT !.pc = "dumping",
                           !.mon = [i \in 1..mc.consoles |->
                                       IF i <= upto THEN S \cup L ELSE S]]
    /\ UNCHANGED <<partitionVars, routerVars, sampleVars, parallelVars, notDump>>

\* model.py:136: one pass of the list comprehension, the engine call
\* returning; when the consoles are exhausted the dict comprehension starts
DumpConsoleReturns ==
    /\ dm.pc = "dumping"
    /\ IF dm.i <= mc.consoles
       THEN dm' = [dm EXCEPT
                     !.ds = Append(@, ConsoleDumpMonitors(dm.i,
                                mc.chains_per_console[dm.i], dm.mon[dm.i])),
                     !.i = @ + 1]
       ELSE dm' = [dm EXCEPT !.pc = "concatenate"]
    /\ UNCHANGED <<partitionVars, routerVars, sampleVars, parallelVars, notDump>>

\* model.py:136: the engine call raises; the exception leaves dumpMonitors
DumpConsoleRaises ==
    /\ dm.pc = "dumping"
    /\ dm.i <= mc.consoles
    /\ dm' = [dm EXCEPT !.pc = "raised"]
    /\ UNCHANGED <<partitionVars, routerVars, sampleVars, parallelVars, notDump>>

\* model.py:137-138: for every key found in some dump, the arrays of all
\* dumps are concatenated on the chain axis; d[k] raises KeyError when a
\* dump lacks the key
DumpConcatenate ==
    /\ dm.pc = "concatenate"
    /\ LET keys == DumpKeys(dm.ds)
           ds == DumpOrder(dm.ds) IN
       IF \E k \in keys, i \in 1..Len(ds) : k \notin DOMAIN ds[i]
       THEN dm' = [dm EXCEPT !.pc = "raised"]
       ELSE dm' = [dm EXCEPT
                     !.out = [k \in keys |->
                                Concatenate([i \in 1..Len(ds) |-> ds[i][k]])],
                     !.pc = "returned"]
    /\ UNCHANGED <<partitionVars, routerVars, sampleVars, parallelVars, notDump>>

----------------------------------------------------------------------------
(***************************************************************************)
(* ProgressBar.update, wrapped by `synchronized`                           *)
(*                                                                         *)
(* pb holds the fields of the ProgressBar that update touches, the lock    *)
(* created by `synchronized` (0 when free, else the thread holding it),    *)
(* and the last thing written to the file: by which thread, and whether it *)
(* was the first or the second write of ProgressBar.write.  upd[t] is the  *)
(* call of thread t: its arguments and the value it has read from          *)
(* iterations_done.  pb.sent is the sum of the steps of all calls made.    *)
(***************************************************************************)
BarIds == 1..BarThreads

PbIdle == [iterations_done |-> 0, lock |-> 0, file |-> [by |-> 0, part |-> 0],
           sent |-> 0]
UpdIdle == [pc |-> "idle", steps |-> 0, force |-> FALSE, tmp |-> 0]

\* a `with` that does not take the lock (mutant of LockFree)
LockIgnored == TRUE

\* progressbar.py:29  `with lock:` can be entered when no thread holds it
LockFree == pb.lock = 0

\* progressbar.py:28: thread t calls update(steps, force)
BarCall(t, steps, force) ==
    /\ upd[t].pc = "idle"
    /\ pb.sent + steps <= MaxSent
    /\ pb' = [pb EXCEPT !.sent = @ + steps]
    /\ upd' = [upd EXCEPT ![t] = [@ EXCEPT !.pc = "acquire", !.steps = steps,
                                          !.force = force]]
    /\ UNCHANGED <<partitionVars, routerVars, sampleVars, parallelVars,
                   notBar>>

\* progressbar.py:29: the lock is acquired
BarAcquire(t) ==
    /\ upd[t].pc = "acquire"
    /\ LockFree
    /\ pb' = [pb EXCEPT !.lock = t]
    /\ upd' = [upd EXCEPT ![t].pc = "load"]
    /\ UNCHANGED <<partitionVars, routerVars, sampleVars, parallelVars,
                   notBar>>

\* progressbar.py:127: `self.iterations_done += steps` reads the attribute
BarLoad(t) ==
    /\ upd[t].pc = "load"
    /\ upd' = [upd EXCEPT ![t] = [@ EXCEPT !.tmp = pb.iterations_done,
                                          !.pc = "store"]]
    /\ UNCHANGED <<pb, partitionVars, routerVars, sampleVars, parallelVars,
                   notBar>>

\* progressbar.py:127: ... and stores the sum
BarStore(t) ==
    /\ upd[t].pc = "store"
    /\ pb' = [pb EXCEPT !.iterations_done = upd[t].tmp + upd[t].steps]
    /\ upd' = [upd EXCEPT ![t].pc = "timer"]
    /\ UNCHANGED <<partitionVars, routerVars, sampleVars, parallelVars,
                   notBar>>

\* progressbar.py:128-130: the timer is read; `due` is the outcome of
\* refresh_seconds <= seconds - last_seconds for that reading
BarTimer(t) ==
    /\ upd[t].pc = "timer"
    /\ \E due \in BOOLEAN :
          upd' = [upd EXCEPT ![t].pc =
                     IF due \/ upd[t].force THEN "write1" ELSE "release"]
    /\ UNCHANGED <<pb, partitionVars, routerVars, sampleVars, parallelVars,
                   notBar>>

\* progressbar.py:131, 136-148: write(render()) makes two writes to the
\* file (erase and line on a tty, line and newline otherwise)
BarWrite(t) ==
    /\ upd[t].pc \in {"write1", "write2"}
    /\ pb' = [pb EXCEPT !.file =
                 [by |-> t, part |-> IF upd[t].pc = "write1" THEN 1 ELSE 2]]
    /\ upd' = [upd EXCEPT ![t].pc =
                 IF upd[t].pc = "write1" THEN "write2" ELSE "release"]
    /\ UNCHANGED <<partitionVars, routerVars, sampleVars, parallelVars,
                   notBar>>

\* progressbar.py:142-148: a write to the file raises
BarWriteRaises(t) ==
    /\ upd[t].pc \in {"write1", "write2"}
    /\ upd' = [upd EXCEPT ![t].pc = "release"]
    /\ UNCHANGED <<pb, partitionVars, routerVars, sampleVars, parallelVars,
                   notBar>>

\* progressbar.py:29-30: the `with` block is left, by return or by
\* exception, and the lock is released
BarRelease(t) ==
    /\ upd[t].pc = "release"
    /\ pb' = [pb EXCEPT !.lock = 0]
    /\ upd' = [upd EXCEPT ![t] = UpdIdle]
    /\ UNCHANGED <<partitionVars, routerVars, sampleVars, parallelVars,
                   notBar>>

----------------------------------------------------------------------------
(***************************************************************************)
(* dict_to_jags and dict_from_jags                                         *)
(*                                                                         *)
(* An array is a record: data, the sequence of its values; mask, for every *)
(* position whether it is missing (all FALSE for a plain array and for a   *)
(* MaskedArray without masked positions); ndim, 0 for a scalar and 1 for   *)
(* an array.  A dictionary is a function from its keys to arrays.          *)
(***************************************************************************)
JAGS_NA == -1           \* the value the engine reads as missing

Values == {JAGS_NA, 0, 1}

Array(data, mask, ndim) == [data |-> data, mask |-> mask, ndim |-> ndim]

NoMask(n) == [i \in 1..n |-> FALSE]

\* model.py:39  np.ma.is_masked(v): some position of v is masked
IsMasked(v) == \E i \in DOMAIN v.mask : v.mask[i]

\* model.py:40-42: a one-dimensional array of doubles in which JAGS_NA
\* replaces the masked values
Filled(v) ==
    Array([i \in DOMAIN v.data |-> IF v.mask[i] THEN JAGS_NA ELSE v.data[i]],
          NoMask(Len(v.data)), 1)

\* model.py:44  np.atleast_1d(v)
AtLeast1d(v) == Array(v.data, v.mask, 1)

\* model.py:39-44: the array stored for value v
ToJags(v) == IF IsMasked(v) THEN Filled(v) ELSE AtLeast1d(v)

\* model.py:45-46 left out: empty arrays are kept (mutant of KeptKeys)
KeptKeysAll(src) == DOMAIN src

\* model.py:45-46: the keys whose array is not empty
KeptKeys(src) == {k \in DOMAIN src : Len(ToJags(src[k]).data) > 0}

\* model.py:29-48
dict_to_jags(src) == [k \in KeptKeys(src) |-> ToJags(src[k])]

\* model.py:59-62 left out: nothing is masked (mutant of FromJags)
FromJagsPlain(v) == v

\* model.py:59-62: the array returned for the engine's array v
FromJags(v) ==
    LET mask == [i \in DOMAIN v.data |-> v.data[i] = JAGS_NA] IN
    IF \E i \in DOMAIN mask : mask[i]
    THEN Array(v.data, mask, v.ndim)
    ELSE v

\* model.py:51-64
dict_from_jags(src) == [k \in DOMAIN src |-> FromJags(src[k])]

----------------------------------------------------------------------------
(***************************************************************************)
(* Model.__init__, Model.update, Model.sample as seen by the engine        *)
(*                                                                         *)
(* ctor holds the constructor call: its arguments, its position, the loop  *)
(* variable `chain` of _init_parameters, the list `init` after the type    *)
(* and length checks, the exception raised and where.  elog is the log of  *)
(* the calls made on self.console, in order.  An argument is a record      *)
(* with its kind ("none", "mapping", "sequence", "other") and its value.   *)
(***************************************************************************)
Variables == {"x"}      \* self.variables: the names the loaded model defines

One == Array(<<1>>, <<FALSE>>, 0)
Empty == Array(<<>>, <<>>, 1)

Arg(kind, val) == [kind |-> kind, val |-> val]
None == Arg("none", <<>>)

\* dictionaries given as data or as initial values of one chain
Dicts ==
    { <<>>,
      [k \in {"x"} |-> One],
      [k \in {"u"} |-> One],
      [k \in {"x", "u"} |-> IF k = "u" THEN Empty ELSE One],
      [k \in {".RNG.name", ".RNG.seed"} |-> One] }

DataArgs == {None} \cup {Arg("mapping", d) : d \in Dicts}

\* lists of dictionaries of length 0..n
RECURSIVE DictLists(_)
DictLists(n) ==
    IF n = 0 THEN {<<>>}
    ELSE DictLists(n - 1)
         \cup {Append(l, d) : l \in {m \in DictLists(n - 1) : Len(m) = n - 1},
                              d \in Dicts}

InitArgs ==
    {None, Arg("other", <<>>)}
    \cup {Arg("mapping", d) : d \in Dicts}
    \cup {Arg("sequence", l) : l \in DictLists(MaxCtorChains + 1)}

CtorIdle ==
    [pc |-> "idle", file |-> FALSE, code |-> FALSE, chains |-> 1,
     adapt |-> 0, use_threads |-> FALSE, data |-> None, init |-> None,
     inits |-> <<>>, chain |-> 1, exc |-> "none", at |-> "none", api |-> 0]

Call(op, arg) == [op |-> op, arg |-> arg]

Logged(op) == \E i \in DOMAIN elog : elog[i].op = op

\* the data compiled after adaptation (mutant of CtorOrder)
CtorOrderCompileLast ==
    <<"model_path", "init_parameters", "initialize", "adapt", "init_compile",
      "ready">>

\* initialize before the parameters are set (mutant of CtorOrder)
CtorOrderInitializeFirst ==
    <<"model_path", "init_compile", "initialize", "init_parameters", "adapt",
      "ready">>

\* model.py:264-271: the order of the steps of __init__
CtorOrder ==
    <<"model_path", "init_compile", "init_parameters", "initialize", "adapt",
      "ready">>

\* the step after step pc
NextPc(pc) ==
    CtorOrder[(CHOOSE i \in DOMAIN CtorOrder : CtorOrder[i] = pc) + 1]

Raise(pc) == [ctor EXCEPT !.pc = "raised", !.exc = "ValueError", !.at = pc]

\* a model_path that takes any arguments (mutant of ModelGiven)
ModelAlwaysGiven(file, code) == TRUE

\* model.py:72-82: one of the two branches that yield a path is taken
ModelGiven(file, code) == file \/ code

\* model.py:72-81: the path yielded, the file if given, else a temporary
\* file holding the code
ModelPath(file, code) == IF file THEN "file" ELSE "tempfile"

\* model.py:264-265, 67-83: model_path, then checkModel on the path
CtorModelPath ==
    /\ ctor.pc = "model_path"
    /\ IF ModelGiven(ctor.file, ctor.code)
       THEN /\ elog' = Append(elog, Call("checkModel",
                                         ModelPath(ctor.file, ctor.code)))
            /\ ctor' = [ctor EXCEPT !.pc = NextPc("model_path")]
       ELSE /\ ctor' = Raise("model_path")
            /\ elog' = elog
    /\ UNCHANGED <<partitionVars, routerVars, sampleVars, parallelVars,
                   notCtor>>

\* no data key is reported (mutant of UnusedData)
UnusedDataNone(data) == {}

\* model.py:274-277: the keys of the converted data that the model lacks
UnusedData(data) ==
    DOMAIN dict_to_jags(IF data.kind = "none" THEN <<>> ELSE data.val)
    \ Variables

\* model.py:273-281  _init_compile(data, generate_data)
CtorInitCompile ==
    /\ ctor.pc = "init_compile"
    /\ \E data \in DataArgs :
          IF UnusedData(data) # {}
          THEN /\ ctor' = [Raise("init_compile") EXCEPT !.data = data]
               /\ elog' = elog
          ELSE /\ ctor' = [ctor EXCEPT !.data = data,
                                       !.pc = NextPc("init_compile")]
               /\ elog' = Append(elog, Call("compile", ctor.chains))
    /\ UNCHANGED <<partitionVars, routerVars, sampleVars, parallelVars,
                   notCtor>>

\* model.py:286-289: the list `init` for an omitted, a mapping or a
\* sequence argument
InitList(init, chains) ==
    IF init.kind = "none" THEN [i \in 1..chains |-> <<>>]
    ELSE IF init.kind = "mapping" THEN [i \in 1..chains |-> init.val]
    ELSE init.val

\* every sequence is taken (mutant of InitLengthOk)
InitLengthAny(init, chains) == TRUE

\* model.py:292  len(init) != self.chains
InitLengthOk(init, chains) == Len(InitList(init, chains)) = chains

\* model.py:286-294: the type and length checks of _init_parameters
CtorInitParameters ==
    /\ ctor.pc = "init_parameters"
    /\ \E init \in InitArgs :
          IF init.kind = "other" \/ ~InitLengthOk(init, ctor.chains)
          THEN ctor' = [Raise("init_parameters") EXCEPT !.init = init]
          ELSE ctor' = [ctor EXCEPT !.init = init,
                                    !.inits = InitList(init, ctor.chains),
                                    !.chain = 1,
                                    !.pc = "parameters_loop"]
    /\ elog' = elog
    /\ UNCHANGED <<partitionVars, routerVars, sampleVars, parallelVars,
                   notCtor>>

\* model.py:303-307: whether setRNGname is called for the chain
NamesRng(data, use_threads) == ".RNG.name" \in DOMAIN data \/ use_threads

\* model.py:302-306: the dictionary without '.RNG.name', and in threaded
\* mode with the '.RNG.state' of the parallel generator when no name is given
ChainData(data, use_threads) ==
    LET keys == (DOMAIN data \ {".RNG.name"})
                \cup (IF use_threads /\ ".RNG.name" \notin DOMAIN data
                      THEN {".RNG.state"} ELSE {}) IN
    [k \in keys |-> IF k \in DOMAIN data THEN data[k] ELSE One]

\* model.py:311-313: the keys of the converted initial values that are
\* neither variables of the model nor '.RNG.seed' or '.RNG.state'
UnusedInit(data, use_threads) ==
    (DOMAIN dict_to_jags(ChainData(data, use_threads)) \ Variables)
    \ {".RNG.seed", ".RNG.state"}

\* model.py:301-318: one pass of the loop over the chains, or its end
CtorChain ==
    /\ ctor.pc = "parameters_loop"
    /\ IF ctor.chain > ctor.chains
       THEN /\ ctor' = [ctor EXCEPT !.pc = NextPc("init_parameters")]
            /\ elog' = elog
       ELSE LET data == ctor.inits[ctor.chain]
                named == IF NamesRng(data, ctor.use_threads)
                         THEN Append(elog, Call("setRNGname", ctor.chain))
                         ELSE elog IN
            IF UnusedInit(data, ctor.use_threads) # {}
            THEN /\ ctor' = Raise("parameters_loop")
                 /\ elog' = named
            ELSE /\ ctor' = [ctor EXCEPT !.chain = @ + 1]
                 /\ elog' = Append(named, Call("setParameters", ctor.chain))
    /\ UNCHANGED <<partitionVars, routerVars, sampleVars, parallelVars,
                   notCtor>>

\* model.py:269  self.console.initialize()
CtorInitialize ==
    /\ ctor.pc = "initialize"
    /\ elog' = Append(elog, Call("initialize", 0))
    /\ ctor' = [ctor EXCEPT !.pc = NextPc("initialize")]
    /\ UNCHANGED <<partitionVars, routerVars, sampleVars, parallelVars,
                   notCtor>>

\* model.py:270-271, 403-415: adapt(adapt) when `adapt` is not zero; the
\* engine says whether the model is adapting
CtorAdapt ==
    /\ ctor.pc = "adapt"
    /\ \E adapting \in BOOLEAN :
          elog' = IF ctor.adapt = 0 THEN elog
                  ELSE IF ~adapting
                  THEN Append(elog, Call("isAdapting", 0))
                  ELSE elog \o <<Call("isAdapting", 0),
                                  Call("update", "adapting: "),
                                  Call("checkAdaptation", 0)>>
    /\ ctor' = [ctor EXCEPT !.pc = NextPc("adapt")]
    /\ UNCHANGED <<partitionVars, routerVars, sampleVars, parallelVars,
                   notCtor>>

\* model.py:362-364  update(iterations) on the constructed Model
ModelUpdate ==
    /\ ctor.pc = "ready"
    /\ ctor.api < MaxApiCalls
    /\ elog' = Append(elog, Call("update", "updating: "))
    /\ ctor' = [ctor EXCEPT !.api = @ + 1]
    /\ UNCHANGED <<partitionVars, routerVars, sampleVars, parallelVars,
                   notCtor>>

\* model.py:366-401  sample(iterations, vars) on the constructed Model,
\* every engine call returning
ModelSample ==
    /\ ctor.pc = "ready"
    /\ ctor.api < MaxApiCalls
    /\ elog' = elog \o <<Call("setMonitor", "x"), Call("update", "sampling: "),
                         Call("dumpMonitors", 0), Call("clearMonitor", "x")>>
    /\ ctor' = [ctor EXCEPT !.api = @ + 1]
    /\ UNCHANGED <<partitionVars, routerVars, sampleVars, parallelVars,
                   notCtor>>

----------------------------------------------------------------------------
(***************************************************************************)
(* The steps of a sampling run around _update.                             *)
(***************************************************************************)
\* every chain is given the seed of chain 1 (mutant of RoutedSeeds)
RoutedSeedsFirst(c, table) == [j \in 1..Cardinality(table[c]) |-> Seed(1)]

\* model.py:301-318, 123-125: after the loop of _init_parameters, the seeds
\* held by console c, table[c] being the pairs <<logical chain, inner
\* chain>> that self.chains routes to c
RoutedSeeds(c, table) ==
    [j \in 1..Cardinality(table[c]) |->
        Seed(CHOOSE k \in 1..run.chains : <<k, j>> \in table[c])]

\* model.py:257-262, 301-318: _init_parameters on the compiled console(s).
\* In sequential mode the one Console runs all chains; in threaded mode
\* setParameters is routed through MultiConsole.chains.
RunInitParameters ==
    /\ run.pc = "construct"
    /\ run.use_threads => mcx.pc = "compiled"
    /\ LET table == [c \in Consoles |->
                       IF run.use_threads
                       THEN {<<k, mc.chains[k][2]>> :
                               k \in {x \in DOMAIN mc.chains : mc.chains[x][1] = c}}
                       ELSE IF c = 1 THEN {<<k, k>> : k \in 1..run.chains}
                       ELSE {}] IN
       eng' = [c \in Consoles |-> [iters |-> 0, seeds |-> RoutedSeeds(c, table)]]
    /\ run' = [run EXCEPT !.pc = "ready"]
    /\ UNCHANGED <<partitionVars, routerVars, sampleVars, parallelVars, notRun>>

\* model.py:388-395, 320-327: sample sets the monitor and calls _update,
\* which enters _update_parallel or _update_sequential
RunSample ==
    /\ run.pc = "ready"
    /\ IF run.use_threads
       THEN /\ px' = [pc |-> "submit", iterations |-> run.iterations,
                      submitted |-> 0, exc |-> "none", kbd |-> "none"]
            /\ gen' = gen
       ELSE /\ gen' = GenStart(run.iterations, RefreshTicks)
            /\ px' = px
    /\ run' = [run EXCEPT !.pc = "update",
                          !.progress = ProgressBar(run.chains, run.iterations)]
    /\ UNCHANGED <<executor, w, interrupt, eng, routerVars, sampleVars, notRun>>

\* model.py:330-332: one pass of the loop of _update_sequential, the engine
\* call returning and the batch reported to the progress bar; the generator
\* is resumed with timer reading e
SequentialUpdateReturns ==
    /\ run.pc = "update"
    /\ ~run.use_threads
    /\ gen.pc = "yielded"
    /\ eng' = [eng EXCEPT ![1] = ConsoleUpdate(@, gen.next)]
    /\ run' = [run EXCEPT !.progress =
                  ProgressUpdate(@, run.chains * gen.next)]
    /\ \E e \in gen.elapsed..MaxElapsed : gen' = GenResume(gen, e)
    /\ UNCHANGED <<routerVars, sampleVars, parallelVars, notRun>>

\* model.py:331: console.update raises; sample raises
SequentialUpdateRaises ==
    /\ run.pc = "update"
    /\ ~run.use_threads
    /\ gen.pc = "yielded"
    /\ run' = [run EXCEPT !.pc = "raised"]
    /\ UNCHANGED <<eng, partitionVars, routerVars, sampleVars, parallelVars,
                   notRun>>

\* model.py:395-398: _update_parallel has raised; sample raises
RunUpdateRaised ==
    /\ run.pc = "update"
    /\ run.use_threads
    /\ px.pc = "raised"
    /\ run' = [run EXCEPT !.pc = "raised"]
    /\ UNCHANGED <<eng, partitionVars, routerVars, sampleVars, parallelVars,
                   notRun>>

\* model.py:396-401, 135-138: _update has returned; the monitors are
\* dumped, in threaded mode concatenated over the consoles, and returned
RunDumpMonitors ==
    /\ run.pc = "update"
    /\ IF run.use_threads THEN px.pc = "returned" ELSE gen.pc = "done"
    /\ run' = [run EXCEPT
                 !.pc = "returned",
                 !.samples =
                    IF run.use_threads
                    THEN Concatenate(DumpOrder([c \in Consoles |->
                                                  ConsoleTrace(eng[c])]))
                    ELSE ConsoleTrace(eng[1])]
    /\ UNCHANGED <<eng, partitionVars, routerVars, sampleVars, parallelVars,
                   notRun>>

----------------------------------------------------------------------------
(***************************************************************************)
(* A round trip through dict_to_jags and dict_from_jags.  codec holds the  *)
(* dictionary given, the encoded and the decoded dictionary.               *)
(***************************************************************************)
CodecIdle == [pc |-> "idle", via |-> "", src |-> <<>>, enc |-> <<>>, dec |-> <<>>]

\* the arrays of n values, with any positions missing; one value can also
\* be given as a scalar
ArraysOfLen(n) ==
    {Array(d, m, nd) : d \in [1..n -> Values], m \in [1..n -> BOOLEAN],
                       nd \in (IF n = 1 THEN {0, 1} ELSE {1})}

Arrays == UNION {ArraysOfLen(n) : n \in 0..MaxLen}

\* the dictionaries tried: any arrays under the keys "x" and "y"
CodecDicts ==
    UNION {[keys -> Arrays] : keys \in SUBSET {"x", "y"}}

\* model.py:29-48: the dictionary is encoded
CodecEncode ==
    /\ codec.pc = "given"
    /\ codec' = [codec EXCEPT !.enc = dict_to_jags(codec.src), !.pc = "encoded"]
    /\ UNCHANGED <<partitionVars, routerVars, sampleVars, parallelVars, notCodec>>

\* model.py:51-64: the encoded dictionary is decoded
CodecDecode ==
    /\ codec.pc = "encoded"
    /\ codec' = [codec EXCEPT !.dec = dict_from_jags(codec.enc), !.pc = "decoded"]
    /\ UNCHANGED <<partitionVars, routerVars, sampleVars, parallelVars, notCodec>>

----------------------------------------------------------------------------
(***************************************************************************)
(* The accessors that return engine data: Model.sample, Model.state,       *)
(* Model.parameters and Model.data.  Each passes the dictionary the engine *)
(* dumps through dict_from_jags.  codec.via names the accessor, codec.enc  *)
(* is the dictionary dumped (for state and parameters, that of one chain)  *)
(* and codec.dec the dictionary returned.                                  *)
(***************************************************************************)
Accessors == {"sample", "state", "parameters", "data"}

\* the arrays the engine dumps: plain arrays of 1..MaxLen values, any of
\* which can be JAGS_NA
EngineArrays ==
    UNION {{Array(d, NoMask(n), 1) : d \in [1..n -> Values]} : n \in 1..MaxLen}

\* the dictionaries the engine dumps
EngineDicts == UNION {[keys -> EngineArrays] : keys \in SUBSET {"x", "y"}}

\* model.py:396, 431, 439, 447: the engine's dumpMonitors / dumpState returns
AccessorDump(via, d) ==
    /\ codec.pc = "idle"
    /\ codec' = [codec EXCEPT !.pc = "dumped", !.via = via, !.enc = d]
    /\ UNCHANGED <<partitionVars, routerVars, sampleVars, parallelVars, notCodec>>

\* model.py:397, 431, 439, 447: dict_from_jags of the dump is returned
AccessorReturn ==
    /\ codec.pc = "dumped"
    /\ codec' = [codec EXCEPT !.pc = "returned", !.dec = dict_from_jags(codec.enc)]
    /\ UNCHANGED <<partitionVars, routerVars, sampleVars, parallelVars, notCodec>>

----------------------------------------------------------------------------
(***************************************************************************)
(* Model._init_parameters: the generator given to every chain.             *)
(*                                                                         *)
(* rng holds one call: the argument, the list `init`, the list `rngs`, the *)
(* loop's chain, and per chain what setRNGname and setParameters received  *)
(* ("unset" and <<>> as long as they were not called).  The value under    *)
(* '.RNG.name' is a string, the other values are arrays.                   *)
(***************************************************************************)
Scalar(v) == Array(<<v>>, <<FALSE>>, 0)
Vector(v) == Array(<<v>>, <<FALSE>>, 1)

\* a generator name, seeds and a generator state a caller supplies
SuppliedNames == {"base::Mersenne-Twister"}
SuppliedSeeds == {1, 2}
SuppliedState == Vector(5)

\* the state of stream k of the parallel generator: one distinct state per
\* requested stream
StreamState(k) == Vector(10 + k)

\* Console.parallel_rngs(name, n): n dictionaries with the generator's name
\* and the state of one stream each
parallel_rngs(name, n) ==
    [k \in 1..n |->
        [key \in {".RNG.name", ".RNG.state"} |->
            IF key = ".RNG.name" THEN name ELSE StreamState(k)]]

\* the initial values of one chain that are tried: any of the three
\* generator keys, or a key "u" that the model does not define
InitKeys == {".RNG.name", ".RNG.seed", ".RNG.state"}

InitDicts ==
    {[key \in {"u"} |-> One]}
    \cup UNION {{[key \in keys |->
                     IF key = ".RNG.name" THEN n
                     ELSE IF key = ".RNG.seed" THEN Scalar(s)
                     ELSE SuppliedState] : n \in SuppliedNames,
                                           s \in SuppliedSeeds}
                : keys \in SUBSET InitKeys}

RECURSIVE InitLists(_)
InitLists(n) ==
    IF n = 0 THEN {<<>>}
    ELSE {Append(l, d) : l \in InitLists(n - 1), d \in InitDicts}

\* the `init` arguments tried: omitted, one mapping, a list of 1..MaxCtorChains
RngInitArgs ==
    {None}
    \cup {Arg("mapping", d) : d \in InitDicts}
    \cup UNION {{Arg("sequence", l) : l \in InitLists(n)} : n \in 1..MaxCtorChains}

RngIdle ==
    [pc |-> "idle", use_threads |-> FALSE, chains |-> 1, init |-> None,
     inits |-> <<>>, rngs |-> <<>>, chain |-> 1, names |-> <<>>,
     params |-> <<>>, exc |-> "none"]

\* model.py:296-299: the list rngs
Rngs(use_threads, chains) ==
    IF use_threads
    THEN parallel_rngs("lecuyer::RngStream", chains)
    ELSE [k \in 1..chains |->
            [key \in {".RNG.name", ".RNG.seed"} |-> "None"]]

\* every chain takes the first entry of rngs (mutant of ZipRng)
ZipRngFirst(rngs, chain) == rngs[1]

\* model.py:301  zip(init, rngs, range(1, self.chains + 1)): the entry of
\* rngs paired with the chain
ZipRng(rngs, chain) == rngs[chain]

\* model.py:303-305  rng_name after the pop and the threaded default
RngNameOf(data, r, use_threads) ==
    LET popped == IF ".RNG.name" \in DOMAIN data THEN data[".RNG.name"]
                  ELSE "None" IN
    IF use_threads /\ popped = "None" THEN r[".RNG.name"] ELSE popped

\* model.py:302-306  data after the pop and, in threaded mode when no name
\* was given, the assignment data['.RNG.state'] = rng['.RNG.state']
RngDataOf(data, r, use_threads) ==
    LET threaded == use_threads /\ ".RNG.name" \notin DOMAIN data
        keys == (DOMAIN data \ {".RNG.name"})
                \cup (IF threaded THEN {".RNG.state"} ELSE {}) IN
    [key \in keys |->
        IF threaded /\ key = ".RNG.state" THEN r[".RNG.state"] ELSE data[key]]

\* model.py:286-299: the checks of the argument, and the list rngs
RngCall(init) ==
    /\ rng.pc = "called"
    /\ IF ~InitLengthOk(init, rng.chains)
       THEN rng' = [rng EXCEPT !.pc = "raised", !.exc = "ValueError",
                               !.init = init]
       ELSE rng' = [rng EXCEPT !.pc = "loop", !.init = init,
                               !.inits = InitList(init, rng.chains),
                               !.rngs = Rngs(rng.use_threads, rng.chains),
                               !.chain = 1]
    /\ UNCHANGED <<partitionVars, routerVars, sampleVars, parallelVars, notRng>>

\* model.py:301-318: one pass of the loop over the chains, or its end
RngChain ==
    /\ rng.pc = "loop"
    /\ IF rng.chain > rng.chains
       THEN rng' = [rng EXCEPT !.pc = "done"]
       ELSE LET r == ZipRng(rng.rngs, rng.chain)
                rng_name == RngNameOf(rng.inits[rng.chain], r, rng.use_threads)
                data == dict_to_jags(RngDataOf(rng.inits[rng.chain], r,
                                               rng.use_threads))
                named == IF rng_name # "None"
                         THEN [rng.names EXCEPT ![rng.chain] = rng_name]
                         ELSE rng.names
                unused == (DOMAIN data \ Variables)
                          \ {".RNG.seed", ".RNG.state"} IN
            IF unused # {}
            THEN rng' = [rng EXCEPT !.names = named, !.pc = "raised",
                                    !.exc = "ValueError"]
            ELSE rng' = [rng EXCEPT !.names = named,
                                    !.params[rng.chain] = data,
                                    !.chain = @ + 1]
    /\ UNCHANGED <<partitionVars, routerVars, sampleVars, parallelVars, notRng>>

----------------------------------------------------------------------------
(***************************************************************************)
(* Model.adapt, called by Model.__init__ or on the constructed Model.      *)
(* run.iterations is the number of adaptation steps asked for;             *)
(* run.adapting is what self.console.isAdapting() returned, run.result     *)
(* what adapt returned, and run.checked the iterations every engine        *)
(* instance had run when checkAdaptation was called.                       *)
(***************************************************************************)
\* model.py:144-145  MultiConsole.isAdapting / model.py:147-148
\* MultiConsole.checkAdaptation: any() over the consoles' answers
AnyTrue(answers) == \E c \in DOMAIN answers : answers[c]

\* the engine instances of the Model
RunConsoles == IF run.use_threads THEN Consoles ELSE {1}

\* _update is called for no iterations (mutant of AdaptIterations)
AdaptIterationsNone(iterations) == 0

\* model.py:414  the iterations adapt passes to _update
AdaptIterations(iterations) == iterations

\* model.py:270-271  `if adapt: self.adapt(adapt)` at the end of __init__
AdaptFromInit ==
    /\ run.pc = "ready"
    /\ run' = [run EXCEPT !.pc = IF run.iterations # 0 THEN "adapt"
                                 ELSE "constructed"]
    /\ UNCHANGED <<eng, partitionVars, routerVars, sampleVars, parallelVars,
                   notRun>>

\* model.py:403  adapt(iterations) called on a Model constructed with
\* adapt = 0
AdaptCall ==
    /\ run.pc = "ready"
    /\ run' = [run EXCEPT !.pc = "adapt"]
    /\ UNCHANGED <<eng, partitionVars, routerVars, sampleVars, parallelVars,
                   notRun>>

\* model.py:411-414, 320-327: isAdapting is asked; when the answer is no,
\* adapt returns True, else _update is entered
AdaptIsAdapting ==
    /\ run.pc = "adapt"
    /\ \E answers \in [RunConsoles -> BOOLEAN] :
          IF ~AnyTrue(answers)
          THEN /\ run' = [run EXCEPT !.pc = "adapted", !.adapting = FALSE,
                                     !.result = TRUE]
               /\ UNCHANGED <<px, gen>>
          ELSE /\ run' = [run EXCEPT
                            !.pc = "update", !.adapting = TRUE,
                            !.progress =
                               ProgressBar(run.chains,
                                           AdaptIterations(run.iterations))]
               /\ IF run.use_threads
                  THEN /\ px' = [pc |-> "submit",
                                 iterations |-> AdaptIterations(run.iterations),
                                 submitted |-> 0, exc |-> "none",
                                 kbd |-> "none"]
                       /\ gen' = gen
                  ELSE /\ gen' = GenStart(AdaptIterations(run.iterations),
                                          RefreshTicks)
                       /\ px' = px
    /\ UNCHANGED <<executor, w, interrupt, eng, routerVars, sampleVars, notRun>>

\* model.py:415: _update has returned; checkAdaptation is asked and its
\* answer returned; answers[c] is what instance c answers, or would answer
\* where any() stops before asking it
AdaptCheckAdaptation ==
    /\ run.pc = "update"
    /\ IF run.use_threads THEN px.pc = "returned" ELSE gen.pc = "done"
    /\ \E answers \in [RunConsoles -> BOOLEAN] :
          run' = [run EXCEPT !.pc = "adapted", !.result = AnyTrue(answers),
                             !.checked = [c \in RunConsoles |-> eng[c].iters],
                             !.answers = answers]
    /\ UNCHANGED <<eng, partitionVars, routerVars, sampleVars, parallelVars,
                   notRun>>

----------------------------------------------------------------------------
(***************************************************************************)
(* ProgressBar during one _update call: __init__, the update calls of the  *)
(* loop and __exit__, with what render computes.                           *)
(*                                                                         *)
(* pr holds the fields of the ProgressBar, the last reading of the timer,  *)
(* the last line rendered, the number of lines written, whether the final  *)
(* newline was written, and the exception a call ended with.  Times are in *)
(* clock ticks since start_seconds.  A float is a record: a fraction       *)
(* num / den, or an infinity, or NaN.                                      *)
(***************************************************************************)
Finite(num, den) == [kind |-> "finite", num |-> num, den |-> den]
Inf == [kind |-> "inf", num |-> 1, den |-> 1]
NegInf == [kind |-> "-inf", num |-> 1, den |-> 1]
NaN == [kind |-> "nan", num |-> 0, den |-> 1]

\* n * x for an int n and a float x
Times(n, x) ==
    IF x.kind = "finite" THEN Finite(n * x.num, x.den)
    ELSE IF x.kind = "nan" \/ n = 0 THEN NaN
    ELSE IF (n > 0) = (x.kind = "inf") THEN Inf
    ELSE NegInf

\* math.isinf(x)
IsInf(x) == x.kind \in {"inf", "-inf"}

\* round(x, 0) of a finite x >= 0: to the nearest integer, a half to even
Round(x) ==
    LET q == x.num \div x.den
        r == x.num % x.den IN
    IF 2 * r < x.den THEN q
    ELSE IF 2 * r > x.den THEN q + 1
    ELSE IF q % 2 = 0 THEN q ELSE q + 1

\* a timedelta, timedelta.max, or the ValueError timedelta(seconds=nan) raises
Timedelta(seconds) == [kind |-> "seconds", seconds |-> seconds]
TimedeltaMax == [kind |-> "max", seconds |-> 0]
TimedeltaError == [kind |-> "ValueError", seconds |-> 0]

PrIdle ==
    [pc |-> "idle", iterations_done |-> 0, iterations_total |-> 0,
     last_seconds |-> 0, now |-> 0, exc |-> "none", isatty |-> FALSE,
     written |-> 0, newline |-> FALSE,
     line |-> [rendered |-> FALSE, done |-> 0, total |-> 0, elapsed |-> 0,
               remaining |-> TimedeltaMax]]

\* progressbar.py:150-152
iterations_remaining(p) == p.iterations_total - p.iterations_done

\* progressbar.py:161-164  the seconds of self.elapsed
elapsed(p) == Round(Finite(p.last_seconds, 1))

\* progressbar.py:166-169
time_per_iteration(p) ==
    IF p.iterations_done # 0
    THEN Finite(p.last_seconds, p.iterations_done)
    ELSE Inf

\* progressbar.py:171-177
remaining(p) ==
    LET remaining_seconds == Times(iterations_remaining(p),
                                   time_per_iteration(p)) IN
    IF IsInf(remaining_seconds) THEN TimedeltaMax
    ELSE IF remaining_seconds.kind = "nan" THEN TimedeltaError
    ELSE Timedelta(Round(remaining_seconds))

\* progressbar.py:98-101, 133-134: the values the line is formatted from
Render(p) ==
    [rendered |-> TRUE, done |-> p.iterations_done,
     total |-> p.iterations_total, elapsed |-> elapsed(p),
     remaining |-> remaining(p)]

\* progressbar.py:125-131  update(steps, force) with timer reading `seconds`,
\* on the ProgressBar p: the new ProgressBar; a render that raises ends the
\* call with the exception, otherwise the line is written (136-148)
Updated(p, steps, force, seconds) ==
    LET counted == [p EXCEPT !.iterations_done = @ + steps, !.now = seconds]
        timed == [counted EXCEPT !.last_seconds = seconds] IN
    IF RefreshTicks <= seconds - p.last_seconds \/ force
    THEN IF remaining(timed).kind = "ValueError"
         THEN [timed EXCEPT !.exc = "ValueError", !.pc = "raised"]
         ELSE [timed EXCEPT !.line = Render(timed), !.written = @ + 1]
    ELSE counted

\* model.py:332, 348  progress.update(chains * steps) in the loop of _update
PrUpdate(steps, seconds) ==
    /\ pr.pc = "open"
    /\ pr' = Updated(pr, steps, FALSE, seconds)
    /\ UNCHANGED <<partitionVars, routerVars, sampleVars, parallelVars,
                   notRender>>

\* progressbar.py:119-123  __exit__, when the with block of _update is left
PrExit(seconds) ==
    /\ pr.pc = "open"
    /\ LET p == Updated(pr, 0, TRUE, seconds) IN
       pr' = IF p.pc = "raised" THEN p
             ELSE [p EXCEPT !.pc = "closed", !.newline = p.isatty]
    /\ UNCHANGED <<partitionVars, routerVars, sampleVars, parallelVars,
                   notRender>>

----------------------------------------------------------------------------
(***************************************************************************)
(* load_module (pyjags/modules.py).                                        *)
(*                                                                         *)
(* mods holds the dictionary loaded_modules (its keys), the engine's list  *)
(* of loaded modules, and a log with one entry per load_module call: the   *)
(* name, whether the shared library was opened, whether the call raised    *)
(* and whether Console.loadModule was called.                              *)
(***************************************************************************)
ModuleNames == {"basemod", "bugs", "lecuyer"}

ModsIdle == [loaded_modules |-> {}, listed |-> <<>>, log |-> <<>>]

\* the elements of a sequence
Range(s) == {s[i] : i \in DOMAIN s}

\* Console.loadModule(name) on the engine's list of loaded modules: a module
\* is listed once, in the order of loading
ConsoleLoadModule(listed, name) ==
    IF name \in Range(listed) THEN listed ELSE Append(listed, name)

\* the library is opened on every call (mutant of NotLoaded)
NotLoadedAlways(name, loaded) == TRUE

\* modules.py:149  name not in loaded_modules
NotLoaded(name, loaded) == name \notin loaded

\* modules.py:139-156  load_module(name); locating or opening the shared
\* library can raise, and the call then ends before Console.loadModule
load_module(name) ==
    /\ Len(mods.log) < MaxModuleCalls
    /\ \E raises \in BOOLEAN :
          LET opens == NotLoaded(name, mods.loaded_modules) IN
          IF opens /\ raises
          THEN mods' = [mods EXCEPT
                          !.log = Append(@, [name |-> name, opened |-> FALSE,
                                             raised |-> TRUE,
                                             engine |-> FALSE])]
          ELSE mods' = [mods EXCEPT
                          !.loaded_modules = @ \cup {name},
                          !.listed = ConsoleLoadModule(@, name),
                          !.log = Append(@, [name |-> name, opened |-> opens,
                                             raised |-> FALSE,
                                             engine |-> TRUE])]
    /\ UNCHANGED <<partitionVars, routerVars, sampleVars, parallelVars,
                   notModule>>

----------------------------------------------------------------------------
(***************************************************************************)
(* The refresh period (model.py:253-254, 326, 330, 344).                   *)
(*                                                                         *)
(* rf holds the argument refresh_seconds of Model (None or a number),      *)
(* whether sys.stdout is a terminal, self.refresh_seconds, the             *)
(* refresh_seconds bound into the progress bar factory, and for every      *)
(* update, sample or adapt call the period given to const_time_partition   *)
(* and the period of the ProgressBar created.  Periods are in tenths of a  *)
(* second.                                                                 *)
(***************************************************************************)
TtyDefault == 5         \* 0.5 seconds
NonTtyDefault == 50     \* 5.0 seconds

\* the values of refresh_seconds tried: None, 0.1, 0.5, 2.0 and 5.0 seconds
RefreshArgs == {None} \cup {Arg("float", v) : v \in {1, 5, 20, 50}}

RfIdle == [pc |-> "idle", given |-> None, isatty |-> FALSE,
           refresh_seconds |-> 0, factory |-> 0, calls |-> <<>>]

\* Python's `a or b`: a unless a is false (None or zero)
Or(a, b) == IF a.kind # "none" /\ a.val # 0 THEN a.val ELSE b

\* model.py:253  refresh_seconds or 0.5 if sys.stdout.isatty() else 5.0
\* A conditional expression binds weaker than `or`: the expression is
\* (refresh_seconds or 0.5) if sys.stdout.isatty() else 5.0
RefreshSeconds(given, isatty) ==
    IF isatty THEN Or(given, TtyDefault) ELSE NonTtyDefault

\* model.py:253-254: __init__ sets self.refresh_seconds and binds it into
\* the progress bar factory
RefreshConstruct ==
    /\ rf.pc = "construct"
    /\ LET seconds == RefreshSeconds(rf.given, rf.isatty) IN
       rf' = [rf EXCEPT !.pc = "ready", !.refresh_seconds = seconds,
                        !.factory = seconds]
    /\ UNCHANGED <<partitionVars, routerVars, sampleVars, parallelVars,
                   notRefresh>>

\* model.py:320-344: update, sample or adapt enters _update: the bar is
\* created by the factory and the loop calls
\* const_time_partition(iterations, self.refresh_seconds), in the sequential
\* and in the parallel path alike
RefreshCall(op) ==
    /\ rf.pc = "ready"
    /\ Len(rf.calls) < MaxApiCalls
    /\ rf' = [rf EXCEPT !.calls =
                 Append(@, [op |-> op, partition |-> rf.refresh_seconds,
                            bar |-> rf.factory])]
    /\ UNCHANGED <<partitionVars, routerVars, sampleVars, parallelVars,
                   notRefresh>>

\* the idle values of the variables of the later components
LaterIdle ==
    /\ rng = RngIdle
    /\ pr = PrIdle
    /\ mods = ModsIdle
    /\ rf = RfIdle

\* the same for all of them but variable v
OthersIdle(v) ==
    /\ v # "rng" => rng = RngIdle
    /\ v # "pr" => pr = PrIdle
    /\ v # "mods" => mods = ModsIdle
    /\ v # "rf" => rf = RfIdle

MoreIdle ==
    /\ LaterIdle
    /\ dm = DmIdle
    /\ pb = PbIdle
    /\ upd = [t \in BarIds |-> UpdIdle]
    /\ ctor = CtorIdle
    /\ elog = <<>>
    /\ eng = EngIdle
    /\ run = RunIdle
    /\ codec = CodecIdle
----------------------------------------------------------------------------
(***************************************************************************)
(* Specification of one const_time_partition call, for every argument and  *)
(* every monotonic sequence of timer readings within the bounds.           *)
(***************************************************************************)
PartitionInit ==
    /\ MoreIdle
    /\ \E iterations \in 0..MaxTotal, period \in 1..MaxPeriod :
          gen = GenStart(iterations, period)
    /\ mc = McIdle
    /\ mcx = McxIdle
    /\ monitors = MonitorsIdle
    /\ sx = SxIdle
    /\ ParallelIdle

\* The consumer runs the batch and asks for the next one; the timer, being
\* monotonic, returns a reading not before the previous one.
PartitionResume ==
    /\ gen.pc = "yielded"
    /\ \E e \in gen.elapsed..MaxElapsed : gen' = GenResume(gen, e)
    /\ UNCHANGED <<routerVars, moreVars, sampleVars, parallelVars>>

PartitionNext == PartitionResume

PartitionSpec == PartitionInit /\ [][PartitionNext]_vars

\* C1: every batch yielded by const_time_partition(total, period) is >= 1,
\* the batches yielded so far never exceed total (so there are at most
\* total of them: the sequence is finite), and when the generator ends they
\* sum exactly to total; total = 0 yields nothing, total = 1 yields <<1>>.
C1_PartitionSumsToTotal ==
    /\ \A i \in DOMAIN gen.out : gen.out[i] >= 1
    /\ Sum(gen.out) <= gen.iterations
    /\ Len(gen.out) <= gen.iterations
    /\ gen.pc = "yielded" => Sum(gen.out) = gen.iterations - gen.left + gen.next
    /\ gen.pc = "done" =>
          /\ Sum(gen.out) = gen.iterations
          /\ gen.iterations = 0 => gen.out = <<>>
          /\ gen.iterations = 1 => gen.out = <<1>>

\* A call that has ended after at least three batches, one of them larger
\* than 1 and one of them computed from a non-zero elapsed time.
C1_Witness ==
    /\ gen.pc = "done"
    /\ Len(gen.out) >= 3
    /\ \E i \in DOMAIN gen.out : gen.out[i] > 1
    /\ gen.elapsed > 0
    /\ Sum(gen.out) = gen.iterations
----------------------------------------------------------------------------
(***************************************************************************)
(* Specification of MultiConsole: construction for every pair of           *)
(* arguments within the bounds, then compile, then routed calls.  The      *)
(* constructor and compile are straight-line code run by one thread, so    *)
(* they keep taking steps (weak fairness).                                 *)
(***************************************************************************)
RouterInit ==
    /\ MoreIdle
    /\ \E chains \in 1..MaxChains, chains_per_thread \in 1..MaxChainsPerThread :
          mcx = McStart(chains, chains_per_thread)
    /\ mc = McIdle
    /\ gen = GenIdle
    /\ monitors = MonitorsIdle
    /\ sx = SxIdle
    /\ ParallelIdle

RouterNext ==
    \/ McWhile
    \/ McFor
    \/ McCompile
    \/ \E chain \in 1..MaxChains : McRoute(chain)

RouterSpec ==
    RouterInit /\ [][RouterNext]_vars /\ WF_vars(McWhile \/ McFor \/ McCompile)

McConstructed == mcx.pc \in {"constructed", "compiled"}

\* the inner chain numbers the table holds for console i
InnerIds(i) == {mc.chains[k][2] : k \in {x \in DOMAIN mc.chains : mc.chains[x][1] = i}}

RoutingTableOk ==
    /\ DOMAIN mc.chains = 1..mcx.total
    /\ \A k \in DOMAIN mc.chains : mc.chains[k][1] \in 1..mc.consoles
    /\ \A j, k \in DOMAIN mc.chains : mc.chains[j] = mc.chains[k] => j = k
    /\ \A i \in 1..mc.consoles : InnerIds(i) = 1..mc.chains_per_console[i]

\* C9: once MultiConsole is constructed, every chain id in 1..total_chains
\* is a key of the routing table, no (console, inner id) pair is the image
\* of two chain ids, the inner ids of each console are exactly
\* 1..shard_size, and no later step changes the table.
C9_RoutingTable ==
    /\ [](McConstructed => RoutingTableOk)
    /\ [][McConstructed => mc'.chains = mc.chains]_vars

\* A constructed table with a partial last shard that has served a routed
\* call to the last chain.
C9_Witness ==
    /\ mcx.pc = "compiled"
    /\ mc.consoles >= 3
    /\ mc.chains_per_console[mc.consoles] < mcx.chains_per_thread
    /\ mcx.routed = <<mc.consoles, mc.chains_per_console[mc.consoles]>>
    /\ RoutingTableOk

CeilDiv(a, b) == (a + b - 1) \div b

ShardsOk ==
    LET n == CeilDiv(mcx.total, mcx.chains_per_thread) IN
    /\ mc.consoles = n
    /\ Len(mc.chains_per_console) = n
    /\ \A i \in 1..(n - 1) : mc.chains_per_console[i] = mcx.chains_per_thread
    /\ mc.chains_per_console[n] = mcx.total - (n - 1) * mcx.chains_per_thread
    /\ Sum(mc.chains_per_console) = mcx.total
    /\ (mcx.total = 7 /\ mcx.chains_per_thread = 2) =>
          /\ mc.chains_per_console = <<2, 2, 2, 1>>
          /\ mc.chains[7] = <<4, 1>>

\* C10: construction of MultiConsole ends; it has then created
\* ceil(total_chains / chains_per_instance) consoles, all of shard size
\* chains_per_instance but the last, which takes the remainder, the sizes
\* summing to total_chains; compile gives every engine instance its shard
\* size as chain count (7 chains at 2 per instance: <<2, 2, 2, 1>>, chain 7
\* is inner chain 1 of console 4).
C10_ShardSizes ==
    /\ <>McConstructed
    /\ [](McConstructed => ShardsOk)
    /\ [](mcx.pc = "compiled" => mc.compiled = mc.chains_per_console)

\* 7 chains at 2 per console, constructed and compiled.
C10_Witness ==
    /\ mcx.pc = "compiled"
    /\ mcx.total = 7
    /\ mcx.chains_per_thread = 2
    /\ mc.compiled = <<2, 2, 2, 1>>
    /\ mc.chains[7] = <<4, 1>>
----------------------------------------------------------------------------
(***************************************************************************)
(* Specification of Model.sample: up to MaxCalls calls on one Model, every *)
(* engine call free to return or to raise.                                 *)
(***************************************************************************)
SampleInit ==
    /\ MoreIdle
    /\ monitors = MonitorsIdle
    /\ sx = SxIdle
    /\ ParallelIdle
    /\ gen = GenIdle
    /\ mc = McIdle
    /\ mcx = McxIdle

SampleNext ==
    \/ \E vs \in VarLists : SampleCall(vs)
    \/ SetMonitorReturns
    \/ SetMonitorRaises
    \/ SampleAppend
    \/ SampleUpdateReturns
    \/ SampleUpdateRaises
    \/ DumpMonitorsReturns
    \/ DumpMonitorsRaises
    \/ SampleFinally
    \/ ClearMonitorReturns
    \/ ClearMonitorRaises
    \/ SampleInterrupt

SampleSpec == SampleInit /\ [][SampleNext]_vars

SampleEnded == sx.pc \in {"returned", "raised"}

\* C2: when a sample call has returned or raised, no engine instance holds
\* a monitor, so that the next sample call starts from an empty monitor
\* set.
C2_NoMonitorLeftAfterSample ==
    SampleEnded => \A c \in Consoles : monitors[c] = {}

\* C3: outside the broadcast loops of setMonitor and clearMonitor, i.e. in
\* every state a later operation can observe, all engine instances hold the
\* same monitors: a broadcast took effect on all of them or on none.
C3_BroadcastAllOrNothing ==
    sx.pc \notin {"setMonitor", "clearMonitor"} =>
        \A c, d \in Consoles : monitors[c] = monitors[d]
----------------------------------------------------------------------------
(***************************************************************************)
(* Specification of one Model._update_parallel call, for every number of   *)
(* iterations within the bound, every interleaving of the pool threads,    *)
(* every engine update free to return or to raise, and at most one         *)
(* KeyboardInterrupt.                                                      *)
(***************************************************************************)
ParallelInit ==
    /\ MoreIdle
    /\ \E iterations \in 0..MaxIterations :
          px = [pc |-> "submit", iterations |-> iterations, submitted |-> 0,
                exc |-> "none", kbd |-> "none"]
    /\ executor = [queue |-> <<>>, busy |-> 0]
    /\ w = [c \in Consoles |-> WIdle]
    /\ interrupt = FALSE
    /\ gen = GenIdle
    /\ mc = McIdle
    /\ mcx = McxIdle
    /\ monitors = MonitorsIdle
    /\ sx = SxIdle

ParallelNext ==
    \/ Submit
    \/ Take
    \/ \E c \in Consoles : CheckFlag(c)
    \/ \E c \in Consoles : CallUpdate(c)
    \/ \E c \in Consoles : UpdateReturns(c)
    \/ \E c \in Consoles : UpdateRaises(c)
    \/ \E c \in Consoles : Report(c)
    \/ WaitReturns
    \/ CollectResults
    \/ ShutdownReturns
    \/ KeyboardInterrupt

ParallelSpec == ParallelInit /\ [][ParallelNext]_vars

ParallelEnded == px.pc \in {"returned", "raised"}
RunningPcs == {"check", "call", "update", "report"}

\* a worker passes from the flag test to the call of console.update
PassesCheck(c) == w[c].pc # "call" /\ w'[c].pc = "call"
\* a worker enters console.update
BeginsUpdate(c) == w[c].pc # "update" /\ w'[c].pc = "update"
\* an engine call in flight ends only by returning or raising
NotAborted(c) == w[c].pc = "update" => w'[c].pc \in {"update", "report", "failed"}

\* C4: during a parallel update no engine instance has two update calls in
\* flight, and no two pool threads run the work item of the same instance,
\* whatever the interleaving and also with fewer threads than instances.
C4_OneThreadPerInstance ==
    /\ \A c \in Consoles : w[c].inflight <= 1
    /\ \A c \in Consoles : w[c].runners <= 1
    /\ \A c \in Consoles : w[c].pc \in RunningPcs <=> w[c].runners = 1
    /\ executor.busy <= Threads

\* Every pool thread is inside the engine update of its own instance while
\* a further instance waits in the queue, one batch having been completed.
C4_Witness ==
    /\ Threads < NumConsoles
    /\ executor.queue # <<>>
    /\ Cardinality({c \in Consoles : w[c].pc = "update"}) = Threads
    /\ \E c \in Consoles : w[c].pc = "update" /\ w[c].gen.left < px.iterations

\* C5: when _update_parallel has returned or raised, no pool thread runs a
\* work item and none is queued; if a worker failed, the call did not
\* return normally, and it raised that failure unless a KeyboardInterrupt
\* took its place; a worker failure is raised only if a worker failed.
C5_ReturnsAfterAllWorkers ==
    /\ ParallelEnded => WorkersStopped
    /\ (ParallelEnded /\ SomeWorkerFailed) => px.pc = "raised"
    /\ (ParallelEnded /\ SomeWorkerFailed /\ px.kbd = "none") =>
          px.exc = "WorkerError"
    /\ px.exc = "WorkerError" => SomeWorkerFailed

\* The call has raised the failure of one worker after another worker, which
\* was still running when the first failed, has finished.
C5_Witness ==
    /\ px.pc = "raised"
    /\ px.exc = "WorkerError"
    /\ px.kbd = "none"
    /\ \E c \in Consoles : w[c].pc = "finished" /\ w[c].late
    /\ WorkersStopped

\* C6 as stated: once a worker has failed, every other worker is signalled
\* and stops after its batch in flight: a worker that has begun one batch
\* since the failure passes no further flag test.
C6_SignalledAfterFailure ==
    [][\A c \in Consoles : w[c].late => ~PassesCheck(c)]_vars

\* C6 as amended: the flag is set only in the except clause of a
\* KeyboardInterrupt, never by the failure of a worker; in a call that no
\* KeyboardInterrupt reached, every worker that did not fail itself ran all
\* its batches (left = 0) before the call ended.
C6_FailureSetsNoFlag ==
    /\ interrupt => px.kbd \in {"wait", "result"}
    /\ (ParallelEnded /\ px.kbd = "none") =>
          \A c \in Consoles :
              /\ w[c].pc \in {"finished", "failed"}
              /\ w[c].pc = "finished" => w[c].gen.left = 0

\* The call raised a worker's failure, without any KeyboardInterrupt, after
\* another worker began batches after the failure and ran to the end.
C6_Witness ==
    /\ px.pc = "raised"
    /\ px.exc = "WorkerError"
    /\ px.kbd = "none"
    /\ ~interrupt
    /\ \E c \in Consoles :
          w[c].pc = "finished" /\ w[c].late /\ w[c].gen.left = 0

\* C7: a KeyboardInterrupt delivered once a worker has been dispatched sets
\* the flag, and is propagated only after the workers have stopped.
C7_InterruptSetsFlag ==
    /\ (px.kbd # "none" /\ px.submitted >= 1) => interrupt
    /\ (px.pc = "raised" /\ px.exc = "KeyboardInterrupt") => WorkersStopped

\* C8 as stated: a worker tests the flag before each batch, and once the
\* flag is set no worker enters console.update any more, and no call in
\* flight is aborted.
C8_NoUpdateBeginsOnceFlagSet ==
    [][\A c \in Consoles :
          /\ PassesCheck(c) => (w[c].pc = "check" /\ ~interrupt)
          /\ interrupt => ~BeginsUpdate(c)
          /\ NotAborted(c)]_vars

\* C8 as amended: a worker tests the flag before each batch; once the flag
\* is set (it is never cleared) no worker passes the test any more, so a
\* worker enters console.update at most once more, for the batch whose test
\* it had passed before; no call in flight is aborted.
C8_NoCheckPassesOnceFlagSet ==
    [][/\ interrupt => interrupt'
       /\ \A c \in Consoles :
          /\ PassesCheck(c) => (w[c].pc = "check" /\ ~interrupt)
          /\ BeginsUpdate(c) => w[c].pc = "call"
          /\ NotAborted(c)]_vars

\* The flag is set; one worker has stopped at its flag test with iterations
\* left while another is still inside console.update.
C8_Witness ==
    /\ interrupt
    /\ \E c \in Consoles : w[c].pc = "finished" /\ w[c].gen.left > 0
    /\ \E c \in Consoles : w[c].pc = "update"
----------------------------------------------------------------------------
(***************************************************************************)
(* Specification of MultiConsole.dumpMonitors: the MultiConsole is built   *)
(* and compiled by the code above for every pair of arguments within the   *)
(* bounds, then its monitors are dumped once.                              *)
(***************************************************************************)
DumpInit ==
    /\ RouterInit

DumpNext ==
    \/ McWhile
    \/ McFor
    \/ McCompile
    \/ DumpCall
    \/ DumpConsoleReturns
    \/ DumpConsoleRaises
    \/ DumpConcatenate

DumpSpec == DumpInit /\ [][DumpNext]_vars

\* C11: when dumpMonitors returns, it returns an array for exactly the
\* monitored variables, and each array has total_chains entries on its chain
\* axis, entry k being the samples of the inner chain that logical chain k
\* is routed to: the tensor a single instance running all chains returns.
C11_DumpInLogicalChainOrder ==
    dm.pc = "returned" =>
        /\ \A i \in 1..mc.consoles : DOMAIN dm.out = dm.mon[i]
        /\ \A k \in DOMAIN dm.out :
              /\ Len(dm.out[k]) = mcx.total
              /\ \A c \in 1..mcx.total : dm.out[k][c] = mc.chains[c]

\* Seven chains on three consoles, two variables dumped.
C11_Witness ==
    /\ dm.pc = "returned"
    /\ mcx.total = 7
    /\ mc.consoles = 3
    /\ DOMAIN dm.out = {"x", "y"}
    /\ dm.out["y"][7] = <<3, 1>>
----------------------------------------------------------------------------
(***************************************************************************)
(* Specification of ProgressBar.update called by BarThreads threads, every *)
(* interleaving of their steps, every timer reading, every write free to   *)
(* raise.                                                                  *)
(***************************************************************************)
BarInit ==
    /\ MoreIdle
    /\ gen = GenIdle
    /\ mc = McIdle
    /\ mcx = McxIdle
    /\ monitors = MonitorsIdle
    /\ sx = SxIdle
    /\ ParallelIdle

BarNext ==
    \/ \E t \in BarIds, steps \in 0..MaxSteps, force \in BOOLEAN :
          BarCall(t, steps, force)
    \/ \E t \in BarIds : BarAcquire(t)
    \/ \E t \in BarIds : BarLoad(t)
    \/ \E t \in BarIds : BarStore(t)
    \/ \E t \in BarIds : BarTimer(t)
    \/ \E t \in BarIds : BarWrite(t)
    \/ \E t \in BarIds : BarWriteRaises(t)
    \/ \E t \in BarIds : BarRelease(t)

BarSpec == BarInit /\ [][BarNext]_vars

\* the steps of the calls of threads 1..n that have not made their increment
RECURSIVE PendingUpTo(_)
PendingUpTo(n) ==
    IF n = 0 THEN 0
    ELSE PendingUpTo(n - 1)
         + (IF upd[n].pc \in {"acquire", "load", "store"}
            THEN upd[n].steps ELSE 0)

InCriticalSection(t) ==
    upd[t].pc \in {"load", "store", "timer", "write1", "write2", "release"}

\* C12: iterations_done is always the sum of the steps of all calls that
\* have made their increment (so, when no call is in progress, of all
\* calls); at most one thread is inside the critical section, it holds the
\* lock, and nothing is written to the file between the two writes of one
\* render; when no call is in progress the lock is free.
C12_NoLostUpdate ==
    /\ pb.iterations_done = pb.sent - PendingUpTo(BarThreads)
    /\ \A t, u \in BarIds :
          InCriticalSection(t) /\ InCriticalSection(u) => t = u
    /\ \A t \in BarIds : InCriticalSection(t) <=> pb.lock = t
    /\ \A t \in BarIds :
          upd[t].pc = "write2" => pb.file = [by |-> t, part |-> 1]
    /\ (\A t \in BarIds : upd[t].pc = "idle") => pb.lock = 0

\* Both threads have reported; one is between the two writes of a render
\* while the other waits for the lock.
C12_Witness ==
    /\ upd[1].pc = "write2"
    /\ upd[2].pc = "acquire"
    /\ upd[2].steps = 2
    /\ pb.iterations_done = 1
    /\ pb.sent = 3
    /\ pb.file = [by |-> 1, part |-> 1]
----------------------------------------------------------------------------
(***************************************************************************)
(* Specification of Model: one construction for every combination of       *)
(* arguments within the bounds, then up to MaxApiCalls calls of update and *)
(* sample.  use_threads is threads > 1 and chains_per_thread < chains, so  *)
(* it needs more than one chain.                                           *)
(***************************************************************************)
CtorInit ==
    /\ LaterIdle
    /\ \E file \in BOOLEAN, code \in BOOLEAN, chains \in 1..MaxCtorChains,
          adapt \in 0..1, use_threads \in BOOLEAN :
          /\ use_threads => chains > 1
          /\ ctor = [CtorIdle EXCEPT !.pc = "model_path", !.file = file,
                                     !.code = code, !.chains = chains,
                                     !.adapt = adapt,
                                     !.use_threads = use_threads]
    /\ elog = <<>>
    /\ eng = EngIdle
    /\ run = RunIdle
    /\ codec = CodecIdle
    /\ dm = DmIdle
    /\ pb = PbIdle
    /\ upd = [t \in BarIds |-> UpdIdle]
    /\ gen = GenIdle
    /\ mc = McIdle
    /\ mcx = McxIdle
    /\ monitors = MonitorsIdle
    /\ sx = SxIdle
    /\ ParallelIdle

CtorNext ==
    \/ CtorModelPath
    \/ CtorInitCompile
    \/ CtorInitParameters
    \/ CtorChain
    \/ CtorInitialize
    \/ CtorAdapt
    \/ ModelUpdate
    \/ ModelSample

CtorSpec == CtorInit /\ [][CtorNext]_vars

\* C13 as stated: with neither or both of file and code the construction
\* fails in model_path with ValueError and checkModel is not called.
C13_ExactlyOneSource ==
    (ctor.pc # "model_path" /\ (ctor.file <=> ctor.code)) =>
        /\ ctor.at = "model_path"
        /\ ctor.exc = "ValueError"
        /\ ~Logged("checkModel")

\* C13 as amended: the construction fails in model_path, with ValueError
\* and before any engine call, exactly when neither file nor code is given;
\* when both are given the model is loaded from the file and the code is
\* ignored; when only the code is given it is loaded from a temporary file.
C13_AtLeastOneSource ==
    ctor.pc # "model_path" =>
        /\ (~ctor.file /\ ~ctor.code) <=> ctor.at = "model_path"
        /\ ctor.at = "model_path" => ctor.exc = "ValueError" /\ elog = <<>>
        /\ ctor.file => elog[1] = Call("checkModel", "file")
        /\ (ctor.code /\ ~ctor.file) => elog[1] = Call("checkModel", "tempfile")

\* A Model constructed with both a file and a code.
C13_Witness ==
    /\ ctor.file /\ ctor.code
    /\ ctor.pc = "ready"
    /\ elog[1] = Call("checkModel", "file")

\* the keys of dictionary d that are not variables of the model
Unknown(d) == DOMAIN d \ Variables

\* ... and whose array is not empty
UnknownNonEmpty(d) == {k \in Unknown(d) : Len(d[k].data) > 0}

RngKeys == {".RNG.name", ".RNG.seed", ".RNG.state"}

DataDict == IF ctor.data.kind = "none" THEN <<>> ELSE ctor.data.val

PastInitCompile == ctor.pc \notin {"model_path", "init_compile"} /\ ctor.at # "model_path"

\* C14 as stated: a data key that is not a variable makes the construction
\* fail with ValueError in _init_compile before compile is called; a key of
\* the initial values of chain c that is neither a variable nor an RNG key
\* makes it fail before setParameters is called for chain c.
C14_UnknownKeysRejected ==
    /\ (PastInitCompile /\ Unknown(DataDict) # {}) =>
          /\ ctor.at = "init_compile"
          /\ ctor.exc = "ValueError"
          /\ ~Logged("compile")
    /\ \A c \in DOMAIN ctor.inits :
          Unknown(ctor.inits[c]) \ RngKeys # {} =>
              Call("setParameters", c) \notin {elog[i] : i \in DOMAIN elog}

\* C14 as amended: the construction fails with ValueError in _init_compile,
\* before compile is called, exactly when the data hold a non-empty array
\* under a key that is not a variable; it fails in the loop of
\* _init_parameters at chain c, after setParameters for the chains before c
\* and before setParameters for chain c, exactly when the initial values of
\* chain c are the first to hold a non-empty array under a key that is
\* neither a variable nor an RNG key.  Keys with an empty array are dropped
\* before the test and never rejected.
C14_UnknownNonEmptyKeysRejected ==
    /\ PastInitCompile =>
          /\ UnknownNonEmpty(DataDict) # {} <=> ctor.at = "init_compile"
          /\ ctor.at = "init_compile" =>
                ctor.exc = "ValueError" /\ ~Logged("compile")
    /\ \A c \in DOMAIN ctor.inits :
          /\ UnknownNonEmpty(ctor.inits[c]) \ RngKeys # {} =>
                Call("setParameters", c) \notin {elog[i] : i \in DOMAIN elog}
          /\ (ctor.at = "parameters_loop" /\ ctor.chain = c) =>
                /\ UnknownNonEmpty(ctor.inits[c]) \ RngKeys # {}
                /\ ctor.exc = "ValueError"
                /\ \A b \in 1..(c - 1) :
                      Call("setParameters", b) \in {elog[i] : i \in DOMAIN elog}
          /\ (ctor.pc = "parameters_loop" /\ ctor.chain > c) =>
                UnknownNonEmpty(ctor.inits[c]) \ RngKeys = {}

\* The data hold an empty array under an unknown key and were compiled;
\* the initial values of chain 2 hold an unknown key and were rejected
\* after chain 1 was given an empty array under an unknown key.
C14_Witness ==
    /\ "u" \in Unknown(DataDict)
    /\ Logged("compile")
    /\ ctor.at = "parameters_loop"
    /\ ctor.chain = 2
    /\ "u" \in DOMAIN ctor.inits[1]
    /\ elog[Len(elog)] = Call("setParameters", 1)

PastInitParameters ==
    \/ ctor.pc \in {"parameters_loop", "initialize", "adapt", "ready"}
    \/ ctor.at \in {"init_parameters", "parameters_loop"}

\* C15: init is taken when it is omitted or a mapping, which is then the
\* initial values of every chain, or a sequence with one element per chain,
\* element i being the initial values of chain i; any other init fails with
\* ValueError in the checks of _init_parameters, before setRNGname or
\* setParameters is called.
C15_InitMappingOrSequence ==
    PastInitParameters =>
        /\ ctor.at = "init_parameters" <=>
              \/ ctor.init.kind = "other"
              \/ ctor.init.kind = "sequence" /\ Len(ctor.init.val) # ctor.chains
        /\ ctor.at = "init_parameters" =>
              /\ ctor.exc = "ValueError"
              /\ ~Logged("setRNGname")
              /\ ~Logged("setParameters")
        /\ ctor.at # "init_parameters" =>
              /\ Len(ctor.inits) = ctor.chains
              /\ \A i \in 1..ctor.chains :
                    ctor.inits[i] =
                       CASE ctor.init.kind = "none" -> <<>>
                         [] ctor.init.kind = "mapping" -> ctor.init.val
                         [] ctor.init.kind = "sequence" -> ctor.init.val[i]

\* A Model constructed with two chains from a list of two different
\* dictionaries, the second naming its generator.
C15_Witness ==
    /\ ctor.pc = "ready"
    /\ ctor.chains = 2
    /\ ctor.init.kind = "sequence"
    /\ ctor.inits[1] # ctor.inits[2]
    /\ ".RNG.name" \in DOMAIN ctor.inits[2]
    /\ Logged("setRNGname")

CtorRaiseSites ==
    {"model_path", "init_compile", "init_parameters", "parameters_loop"}

\* C16: a configuration error (ValueError) ends the construction, it is
\* raised at one of the four checks of __init__, and when it is raised
\* neither initialize nor any update has been called on the engine (worker
\* threads are started only by an update); from initialize onward, and on
\* the constructed Model, no configuration error is raised.
C16_ConfigErrorsBeforeInitialize ==
    /\ ctor.exc = "ValueError" =>
          /\ ctor.pc = "raised"
          /\ ctor.at \in CtorRaiseSites
          /\ ~Logged("initialize")
          /\ ~Logged("update")
    /\ ctor.pc = "raised" => ctor.exc = "ValueError"
    /\ (Logged("initialize") \/ Logged("update")) =>
          /\ ctor.exc = "none"
          /\ ctor.pc \in {"adapt", "ready"}

\* The initial values of the second chain are rejected in threaded mode,
\* after the first chain was given its generator and its parameters.
C16_Witness ==
    /\ ctor.exc = "ValueError"
    /\ ctor.at = "parameters_loop"
    /\ ctor.use_threads
    /\ ctor.chain = 2
    /\ Logged("compile")
    /\ Call("setParameters", 1) \in {elog[i] : i \in DOMAIN elog}
    /\ elog[Len(elog)] = Call("setRNGname", 2)

\* the lifecycle stage an engine call belongs to
Stage(call) ==
    CASE call.op = "checkModel" -> 1
      [] call.op = "compile" -> 2
      [] call.op \in {"setRNGname", "setParameters"} -> 3
      [] call.op = "initialize" -> 4
      [] call.op \in {"isAdapting", "checkAdaptation"} -> 5
      [] call.op = "update" -> IF call.arg = "adapting: " THEN 5 ELSE 6
      [] OTHER -> 6

Count(op) == Cardinality({i \in DOMAIN elog : elog[i].op = op})

\* C17: the engine calls of a Model are made in the order checkModel,
\* compile, setRNGname / setParameters, initialize, adaptation, and then
\* the calls of update and sample; checkModel, compile and initialize are
\* called at most once, and exactly once, with setParameters for every
\* chain, on a constructed Model; calls of update and sample are made only
\* on a constructed Model, and they leave it constructed.
C17_LifecycleOrder ==
    /\ \A i, j \in DOMAIN elog : i < j => Stage(elog[i]) <= Stage(elog[j])
    /\ \A op \in {"checkModel", "compile", "initialize"} : Count(op) <= 1
    /\ ctor.pc = "ready" =>
          /\ \A op \in {"checkModel", "compile", "initialize"} : Count(op) = 1
          /\ \A c \in 1..ctor.chains :
                Call("setParameters", c) \in {elog[i] : i \in DOMAIN elog}
    /\ (\E i \in DOMAIN elog : Stage(elog[i]) = 6) => ctor.pc = "ready"
    /\ ctor.api > 0 => ctor.pc = "ready"

\* A Model with two chains that adapted, then sampled, then updated.
C17_Witness ==
    /\ ctor.pc = "ready"
    /\ ctor.chains = 2
    /\ ctor.api = 2
    /\ Logged("checkAdaptation")
    /\ elog[Len(elog)] = Call("update", "updating: ")
    /\ elog[Len(elog) - 1] = Call("clearMonitor", "x")
----------------------------------------------------------------------------
(***************************************************************************)
(* Specification of a sampling run: sequential mode with every number of   *)
(* chains and iterations within the bounds, and threaded mode on a         *)
(* MultiConsole of NumConsoles instances whose last one runs a single      *)
(* chain, for every chains_per_thread tried; every batch sequence of the   *)
(* partitioner, every interleaving of the pool threads, every engine       *)
(* update free to raise, at most one KeyboardInterrupt.                    *)
(***************************************************************************)
RunInit ==
    /\ LaterIdle
    /\ \/ \E chains \in 1..MaxCtorChains, iterations \in 0..MaxTotal :
             /\ run = [RunIdle EXCEPT !.pc = "construct", !.chains = chains,
                                      !.iterations = iterations]
             /\ mcx = McxIdle
       \/ \E cpt \in ChainsPerThreadTried, iterations \in 0..MaxIterations :
             LET chains == cpt * (NumConsoles - 1) + 1 IN
             /\ run = [RunIdle EXCEPT !.pc = "construct", !.chains = chains,
                                      !.use_threads = TRUE,
                                      !.iterations = iterations]
             /\ mcx = McStart(chains, cpt)
    /\ mc = McIdle
    /\ eng = EngIdle
    /\ gen = GenIdle
    /\ monitors = MonitorsIdle
    /\ sx = SxIdle
    /\ ParallelIdle
    /\ dm = DmIdle
    /\ pb = PbIdle
    /\ upd = [t \in BarIds |-> UpdIdle]
    /\ ctor = CtorIdle
    /\ elog = <<>>
    /\ codec = CodecIdle

RunNext ==
    \/ McWhile
    \/ McFor
    \/ McCompile
    \/ RunInitParameters
    \/ RunSample
    \/ SequentialUpdateReturns
    \/ SequentialUpdateRaises
    \/ RunUpdateRaised
    \/ RunDumpMonitors
    \/ Submit
    \/ Take
    \/ \E c \in Consoles : CheckFlag(c)
    \/ \E c \in Consoles : CallUpdate(c)
    \/ \E c \in Consoles : UpdateReturns(c)
    \/ \E c \in Consoles : UpdateRaises(c)
    \/ \E c \in Consoles : Report(c)
    \/ WaitReturns
    \/ CollectResults
    \/ ShutdownReturns
    \/ KeyboardInterrupt

RunSpec == RunInit /\ [][RunNext]_vars

\* the samples a single engine instance running all chains returns after
\* `iterations` iterations: what the configuration alone determines
ExpectedSamples ==
    [k \in 1..run.chains |-> [t \in 1..run.iterations |-> <<Seed(k), t>>]]

\* C18: the samples sample() returns are a function of the configuration
\* (chains, seeds, iterations) alone: whatever batches the partitioner
\* yields and however the pool threads interleave, entry k of the chain
\* axis is the sample sequence of logical chain k under its seed, so two
\* Models with the same configuration return identical samples.
C18_SamplesDeterminedByConfiguration ==
    run.pc = "returned" => run.samples = ExpectedSamples

\* A threaded run over three consoles with two chains per thread returned
\* two iterations of five chains.
C18_Witness ==
    /\ run.pc = "returned"
    /\ run.use_threads
    /\ run.chains > NumConsoles
    /\ run.iterations = 2
    /\ run.samples[run.chains][2] = <<Seed(run.chains), 2>>
    /\ run.samples[2][1] = <<Seed(2), 1>>

\* the engine instances the Model uses
UsedConsoles == IF run.use_threads THEN Consoles ELSE {1}

\* C19: when sample(iterations) returns, every engine instance of the Model
\* has run exactly `iterations` iterations, and the samples have `chains`
\* entries on the chain axis, each with `iterations` entries on the
\* iteration axis.
C19_IterationsAndShape ==
    run.pc = "returned" =>
        /\ \A c \in UsedConsoles : eng[c].iters = run.iterations
        /\ Len(run.samples) = run.chains
        /\ \A k \in 1..run.chains : Len(run.samples[k]) = run.iterations

\* A sequential run whose partitioner yielded batches of different sizes.
C19_Witness ==
    /\ run.pc = "returned"
    /\ ~run.use_threads
    /\ run.chains = 2
    /\ run.iterations = 5
    /\ Len(gen.out) = 3
    /\ \E i \in DOMAIN gen.out : gen.out[i] > 1
    /\ Len(run.samples[2]) = 5
----------------------------------------------------------------------------
(***************************************************************************)
(* Specification of the round trip, for every dictionary within the bound. *)
(***************************************************************************)
CodecInit ==
    /\ LaterIdle
    /\ \E src \in CodecDicts : codec = [CodecIdle EXCEPT !.pc = "given", !.src = src]
    /\ gen = GenIdle
    /\ mc = McIdle
    /\ mcx = McxIdle
    /\ monitors = MonitorsIdle
    /\ sx = SxIdle
    /\ ParallelIdle
    /\ dm = DmIdle
    /\ pb = PbIdle
    /\ upd = [t \in BarIds |-> UpdIdle]
    /\ ctor = CtorIdle
    /\ elog = <<>>
    /\ eng = EngIdle
    /\ run = RunIdle

CodecNext ==
    \/ CodecEncode
    \/ CodecDecode

CodecSpec == CodecInit /\ [][CodecNext]_vars

\* the keys of the dictionary given whose array is not empty
NonEmptyKeys == {k \in DOMAIN codec.src : Len(codec.src[k].data) > 0}

\* what the round trip keeps whatever the values are: empty arrays are
\* absent from the encoded dictionary, every entry has at least one
\* dimension and the length of the array given, and the values at the
\* positions that were not missing are unchanged
RoundTripKeeps ==
    /\ DOMAIN codec.enc = NonEmptyKeys
    /\ DOMAIN codec.dec = NonEmptyKeys
    /\ \A k \in NonEmptyKeys :
          /\ codec.enc[k].ndim >= 1
          /\ codec.dec[k].ndim >= 1
          /\ Len(codec.dec[k].data) = Len(codec.src[k].data)
          /\ \A i \in DOMAIN codec.src[k].data :
                ~codec.src[k].mask[i] =>
                    codec.dec[k].data[i] = codec.src[k].data[i]

\* C20 as stated: after the round trip the mask is at exactly the positions
\* that were missing, the other values are unchanged, every entry is at
\* least one-dimensional and empty arrays are absent.
C20_RoundTripExactMask ==
    codec.pc = "decoded" =>
        /\ RoundTripKeeps
        /\ \A k \in NonEmptyKeys : codec.dec[k].mask = codec.src[k].mask

\* C20 as amended: after the round trip a position is masked exactly when it
\* was missing or held the value JAGS_NA; the values at the positions that
\* were not missing are unchanged, every entry is at least one-dimensional
\* and empty arrays are absent.
C20_RoundTripMaskOrNA ==
    codec.pc = "decoded" =>
        /\ RoundTripKeeps
        /\ \A k \in NonEmptyKeys : \A i \in DOMAIN codec.src[k].data :
              codec.dec[k].mask[i] <=>
                 (codec.src[k].mask[i] \/ codec.src[k].data[i] = JAGS_NA)

\* A round trip of a scalar under "x" and, under "y", an array whose first
\* value is missing and whose second is not.
C20_Witness ==
    /\ codec.pc = "decoded"
    /\ DOMAIN codec.src = {"x", "y"}
    /\ codec.src["x"] = Array(<<0>>, <<FALSE>>, 0)
    /\ codec.src["y"] = Array(<<0, 1>>, <<TRUE, FALSE>>, 1)
    /\ codec.enc["y"].data = <<JAGS_NA, 1>>
    /\ codec.dec["y"].mask = <<TRUE, FALSE>>
    /\ codec.dec["x"].ndim = 1
----------------------------------------------------------------------------
(***************************************************************************)
(* Specification of the accessors, for every dictionary the engine can     *)
(* dump within the bound.                                                  *)
(***************************************************************************)
AccessorInit ==
    /\ LaterIdle
    /\ codec = CodecIdle
    /\ gen = GenIdle
    /\ mc = McIdle
    /\ mcx = McxIdle
    /\ monitors = MonitorsIdle
    /\ sx = SxIdle
    /\ ParallelIdle
    /\ dm = DmIdle
    /\ pb = PbIdle
    /\ upd = [t \in BarIds |-> UpdIdle]
    /\ ctor = CtorIdle
    /\ elog = <<>>
    /\ eng = EngIdle
    /\ run = RunIdle

AccessorNext ==
    \/ \E via \in Accessors, d \in EngineDicts : AccessorDump(via, d)
    \/ AccessorReturn

AccessorSpec == AccessorInit /\ [][AccessorNext]_vars

\* the positions of the engine's array v that hold JAGS_NA
SentinelAt(v) == {i \in DOMAIN v.data : v.data[i] = JAGS_NA}

\* the masked positions of the array v
MaskedAt(v) == {i \in DOMAIN v.mask : v.mask[i]}

\* C21: for each entry of the dictionary an accessor (sample, state,
\* parameters, data) returns: when the engine's array holds JAGS_NA
\* somewhere, the entry has the engine's values and is masked at exactly the
\* positions equal to JAGS_NA; otherwise it is the engine's array itself.
\* So no returned entry holds JAGS_NA at an unmasked position.
C21_DecodeMasksExactlySentinels ==
    codec.pc = "returned" =>
        /\ DOMAIN codec.dec = DOMAIN codec.enc
        /\ \A k \in DOMAIN codec.enc :
              /\ codec.dec[k].data = codec.enc[k].data
              /\ IF SentinelAt(codec.enc[k]) # {}
                 THEN MaskedAt(codec.dec[k]) = SentinelAt(codec.enc[k])
                 ELSE codec.dec[k] = codec.enc[k]
              /\ SentinelAt(codec.dec[k]) \subseteq MaskedAt(codec.dec[k])

\* Model.state returns a dictionary in which "x" had JAGS_NA at its second
\* position only and "y" had none.
C21_Witness ==
    /\ codec.pc = "returned"
    /\ codec.via = "state"
    /\ DOMAIN codec.enc = {"x", "y"}
    /\ codec.enc["x"].data = <<0, JAGS_NA>>
    /\ codec.enc["y"].data = <<1>>
    /\ codec.dec["x"].mask = <<FALSE, TRUE>>
    /\ codec.dec["y"] = codec.enc["y"]
----------------------------------------------------------------------------
(***************************************************************************)
(* Specification of _init_parameters, for every mode, number of chains and *)
(* argument within the bounds.                                             *)
(***************************************************************************)
RngInit ==
    /\ \E chains \in 1..MaxCtorChains, use_threads \in BOOLEAN :
          /\ use_threads => chains > 1
          /\ rng = [RngIdle EXCEPT !.pc = "called", !.chains = chains,
                                   !.use_threads = use_threads,
                                   !.names = [k \in 1..chains |-> "unset"],
                                   !.params = [k \in 1..chains |-> <<>>]]
    /\ OthersIdle("rng")
    /\ codec = CodecIdle
    /\ gen = GenIdle
    /\ mc = McIdle
    /\ mcx = McxIdle
    /\ monitors = MonitorsIdle
    /\ sx = SxIdle
    /\ ParallelIdle
    /\ dm = DmIdle
    /\ pb = PbIdle
    /\ upd = [t \in BarIds |-> UpdIdle]
    /\ ctor = CtorIdle
    /\ elog = <<>>
    /\ eng = EngIdle
    /\ run = RunIdle

RngNext ==
    \/ \E init \in RngInitArgs : RngCall(init)
    \/ RngChain

RngSpec == RngInit /\ [][RngNext]_vars

\* the generator assignment of chain k once the loop has passed it: the
\* name given to setRNGname and the seed and state given to setParameters
Assignment(k) ==
    [name |-> rng.names[k],
     seed |-> IF ".RNG.seed" \in DOMAIN rng.params[k]
              THEN rng.params[k][".RNG.seed"].data ELSE <<>>,
     state |-> IF ".RNG.state" \in DOMAIN rng.params[k]
               THEN rng.params[k][".RNG.state"].data ELSE <<>>]

\* chains j and k were given the same generator name together with the same
\* seed or the same state
SameAssignment(j, k) ==
    /\ Assignment(j) = Assignment(k)
    /\ Assignment(j).seed # <<>> \/ Assignment(j).state # <<>>

\* C22: in threaded mode, once _init_parameters has returned, no two chains
\* were given the same generator assignment (the same name together with
\* the same seed or state), whatever accepted init argument was given.
C22_NoSharedAssignment ==
    (rng.pc = "done" /\ rng.use_threads) =>
        \A j \in 1..rng.chains, k \in 1..rng.chains :
            j # k => ~SameAssignment(j, k)

\* the chains that the loop of _init_parameters has passed
Assigned == IF rng.pc \in {"loop", "done"} THEN 1..(rng.chain - 1) ELSE {}

\* C23: for every chain, a generator name, seed or state supplied in the
\* chain's initial values is the one applied: the name is given to
\* setRNGname, the seed and the state are given unchanged to setParameters,
\* also in threaded mode when no name comes with them.
C23_SuppliedAssignmentApplied ==
    \A k \in Assigned :
        LET data == rng.inits[k] IN
        /\ ".RNG.name" \in DOMAIN data => rng.names[k] = data[".RNG.name"]
        /\ ".RNG.seed" \in DOMAIN data =>
              Assignment(k).seed = data[".RNG.seed"].data
        /\ ".RNG.state" \in DOMAIN data =>
              Assignment(k).state = data[".RNG.state"].data

\* the chains whose initial values carry no '.RNG.name'
Unnamed == {k \in Assigned : ".RNG.name" \notin DOMAIN rng.inits[k]}

\* C28: in threaded mode every chain whose initial values carry no
\* '.RNG.name' is given the name and the state of entry number `chain` of
\* parallel_rngs('lecuyer::RngStream', chains), so two such chains never
\* have the same assignment; in non-threaded mode setRNGname is not called
\* for such a chain.
C28_OwnStreamPerUnnamedChain ==
    /\ rng.use_threads =>
          /\ \A k \in Unnamed :
                LET own == parallel_rngs("lecuyer::RngStream", rng.chains)[k] IN
                /\ rng.names[k] = own[".RNG.name"]
                /\ Assignment(k).state = own[".RNG.state"].data
          /\ \A j \in Unnamed, k \in Unnamed :
                j # k => Assignment(j) # Assignment(k)
    /\ ~rng.use_threads => \A k \in Unnamed : rng.names[k] = "unset"

\* A threaded Model of two chains, neither with a generator name, the
\* second with a seed: both were given their own stream.
C28_Witness ==
    /\ rng.pc = "done"
    /\ rng.use_threads
    /\ rng.chains = 2
    /\ Unnamed = {1, 2}
    /\ ".RNG.seed" \in DOMAIN rng.inits[2]
    /\ rng.names = <<"lecuyer::RngStream", "lecuyer::RngStream">>
    /\ Assignment(1).state = StreamState(1).data
    /\ Assignment(2).state = StreamState(2).data
----------------------------------------------------------------------------
(***************************************************************************)
(* Specification of adaptation: a Model is constructed in sequential mode  *)
(* or over NumConsoles engine instances with one chain each, then adapt    *)
(* runs, called by __init__ or by the user.                                *)
(***************************************************************************)
AdaptInit ==
    /\ LaterIdle
    /\ \/ \E chains \in 1..MaxCtorChains, iterations \in 0..MaxTotal :
             /\ run = [RunIdle EXCEPT !.pc = "construct", !.chains = chains,
                                      !.iterations = iterations]
             /\ mcx = McxIdle
       \/ \E iterations \in 0..MaxIterations :
             /\ run = [RunIdle EXCEPT !.pc = "construct",
                                      !.chains = NumConsoles,
                                      !.use_threads = TRUE,
                                      !.iterations = iterations]
             /\ mcx = McStart(NumConsoles, 1)
    /\ mc = McIdle
    /\ eng = EngIdle
    /\ gen = GenIdle
    /\ monitors = MonitorsIdle
    /\ sx = SxIdle
    /\ ParallelIdle
    /\ dm = DmIdle
    /\ pb = PbIdle
    /\ upd = [t \in BarIds |-> UpdIdle]
    /\ ctor = CtorIdle
    /\ elog = <<>>
    /\ codec = CodecIdle

AdaptNext ==
    \/ McWhile
    \/ McFor
    \/ McCompile
    \/ RunInitParameters
    \/ AdaptFromInit
    \/ AdaptCall
    \/ AdaptIsAdapting
    \/ AdaptCheckAdaptation
    \/ SequentialUpdateReturns
    \/ SequentialUpdateRaises
    \/ RunUpdateRaised
    \/ Submit
    \/ Take
    \/ \E c \in Consoles : CheckFlag(c)
    \/ \E c \in Consoles : CallUpdate(c)
    \/ \E c \in Consoles : UpdateReturns(c)
    \/ \E c \in Consoles : UpdateRaises(c)
    \/ \E c \in Consoles : Report(c)
    \/ WaitReturns
    \/ CollectResults
    \/ ShutdownReturns
    \/ KeyboardInterrupt

AdaptSpec == AdaptInit /\ [][AdaptNext]_vars

\* no engine instance has run an iteration and no update is under way
NoBatchRun ==
    /\ \A c \in Consoles : eng[c].iters = 0
    /\ gen = GenIdle
    /\ px.pc = "idle"

\* C24: when isAdapting answers no, adapt returns True and no update batch
\* has run; a Model constructed with adapt = 0 has run no batch and adapt
\* was not entered; otherwise, when checkAdaptation is asked, every engine
\* instance of the Model has run exactly the iterations asked for.
C24_AdaptBatches ==
    /\ run.pc = "constructed" => NoBatchRun /\ run.iterations = 0
    /\ (run.pc = "adapted" /\ ~run.adapting) => run.result /\ NoBatchRun
    /\ (run.pc = "adapted" /\ run.adapting) =>
          /\ DOMAIN run.checked = RunConsoles
          /\ \A c \in RunConsoles : run.checked[c] = run.iterations

\* adapt(2) on a threaded Model whose engine was adapting: checkAdaptation
\* was asked after every instance had run two iterations, and answered no.
C24_Witness ==
    /\ run.pc = "adapted"
    /\ run.use_threads
    /\ run.adapting
    /\ run.iterations = 2
    /\ ~run.result
    /\ \A c \in Consoles : run.checked[c] = 2
----------------------------------------------------------------------------
(***************************************************************************)
(* Specification of the ProgressBar of one _update call: any total within  *)
(* the bound, any split of it into update calls, any monotonic timer       *)
(* readings, the with block left at any point.                             *)
(***************************************************************************)
RenderInit ==
    /\ \E steps \in 0..MaxSent, isatty \in BOOLEAN :
          pr = [PrIdle EXCEPT !.pc = "open", !.iterations_total = steps,
                              !.isatty = isatty]
    /\ OthersIdle("pr")
    /\ codec = CodecIdle
    /\ gen = GenIdle
    /\ mc = McIdle
    /\ mcx = McxIdle
    /\ monitors = MonitorsIdle
    /\ sx = SxIdle
    /\ ParallelIdle
    /\ dm = DmIdle
    /\ pb = PbIdle
    /\ upd = [t \in BarIds |-> UpdIdle]
    /\ ctor = CtorIdle
    /\ elog = <<>>
    /\ eng = EngIdle
    /\ run = RunIdle

RenderNext ==
    \/ \E steps \in 1..iterations_remaining(pr), seconds \in pr.now..MaxElapsed :
          PrUpdate(steps, seconds)
    \/ \E seconds \in pr.now..MaxElapsed : PrExit(seconds)

RenderSpec == RenderInit /\ [][RenderNext]_vars

\* C25: no render of an update call raises, whatever done, total and
\* elapsed are, total = 0 included; and a line rendered with done = 0 shows
\* the maximal duration as the remaining time.
C25_RenderDefined ==
    /\ pr.exc = "none"
    /\ (pr.line.rendered /\ pr.line.done = 0) =>
          pr.line.remaining = TimedeltaMax
----------------------------------------------------------------------------
(***************************************************************************)
(* Specification of the module registry: any sequence of load_module calls *)
(* for the three default modules, within the bound.                        *)
(***************************************************************************)
ModuleInit ==
    /\ mods = ModsIdle
    /\ OthersIdle("mods")
    /\ codec = CodecIdle
    /\ gen = GenIdle
    /\ mc = McIdle
    /\ mcx = McxIdle
    /\ monitors = MonitorsIdle
    /\ sx = SxIdle
    /\ ParallelIdle
    /\ dm = DmIdle
    /\ pb = PbIdle
    /\ upd = [t \in BarIds |-> UpdIdle]
    /\ ctor = CtorIdle
    /\ elog = <<>>
    /\ eng = EngIdle
    /\ run = RunIdle

ModuleNext == \E name \in ModuleNames : load_module(name)

ModuleSpec == ModuleInit /\ [][ModuleNext]_vars

\* the calls of the log that are for `name`
CallsFor(name) == {i \in DOMAIN mods.log : mods.log[i].name = name}

\* the calls on which the library of `name` was opened
OpensOf(name) == {i \in CallsFor(name) : mods.log[i].opened}

\* the calls for `name` that did not raise
ReturnsOf(name) == {i \in CallsFor(name) : ~mods.log[i].raised}

\* the least element of a non-empty set of numbers
Least(S) == CHOOSE i \in S : \A j \in S : i <= j

\* C26 as stated: the library of every name is opened at most once, on the
\* first call for the name; Console.loadModule is called on every call; and
\* once basemod, bugs and lecuyer have each been loaded, the engine lists
\* exactly basemod, bugs, lecuyer, in that order.
C26_OpenedOnceListedInOrder ==
    /\ \A name \in ModuleNames :
          /\ Cardinality(OpensOf(name)) <= 1
          /\ CallsFor(name) # {} => OpensOf(name) = {Least(CallsFor(name))}
    /\ \A i \in DOMAIN mods.log : mods.log[i].engine
    /\ (\A name \in ModuleNames : CallsFor(name) # {}) =>
          mods.listed = <<"basemod", "bugs", "lecuyer">>

\* C26 as amended: the library of every name is opened at most once, on the
\* first call for the name that does not raise; Console.loadModule is called
\* on exactly the calls that do not raise; and the engine lists every name
\* with such a call once, in the order of their first such calls, so it
\* lists basemod, bugs, lecuyer in that order when they were first loaded in
\* that order.
C26_OpenedOnceListedByFirstLoad ==
    /\ \A name \in ModuleNames :
          /\ Cardinality(OpensOf(name)) <= 1
          /\ ReturnsOf(name) # {} => OpensOf(name) = {Least(ReturnsOf(name))}
          /\ ReturnsOf(name) = {} => OpensOf(name) = {}
    /\ \A i \in DOMAIN mods.log : mods.log[i].engine = ~mods.log[i].raised
    /\ Range(mods.listed) = {name \in ModuleNames : ReturnsOf(name) # {}}
    /\ \A i \in DOMAIN mods.listed, j \in DOMAIN mods.listed :
          i < j => Least(ReturnsOf(mods.listed[i]))
                     < Least(ReturnsOf(mods.listed[j]))
    /\ (/\ \A name \in ModuleNames : ReturnsOf(name) # {}
        /\ Least(ReturnsOf("basemod")) < Least(ReturnsOf("bugs"))
        /\ Least(ReturnsOf("bugs")) < Least(ReturnsOf("lecuyer"))) =>
          mods.listed = <<"basemod", "bugs", "lecuyer">>

\* basemod, bugs and lecuyer were loaded in that order and bugs once more:
\* the second call for bugs opened nothing and the list has three names.
C26_Witness ==
    /\ Len(mods.log) = 4
    /\ \A i \in 1..4 : ~mods.log[i].raised
    /\ mods.log[1].name = "basemod"
    /\ mods.log[2].name = "bugs"
    /\ mods.log[3].name = "lecuyer"
    /\ mods.log[4].name = "bugs"
    /\ ~mods.log[4].opened
    /\ mods.log[4].engine
    /\ mods.listed = <<"basemod", "bugs", "lecuyer">>
----------------------------------------------------------------------------
(***************************************************************************)
(* The batch rule of const_time_partition, stated on what the consumer     *)
(* sees: the batches yielded and the timer readings.                       *)
(***************************************************************************)
\* floor(a / b) for a >= 0 and b > 0: the q with q * b <= a < (q + 1) * b
FloorOf(a, b) == CHOOSE q \in 0..a : q * b <= a /\ a < (q + 1) * b

\* n clamped into [lo, hi]
ClampedInto(n, lo, hi) == IF n < lo THEN lo ELSE IF n > hi THEN hi ELSE n

\* the batch that must follow the batches `out` of a call for `iterations`
\* with `period`, when the timer reads `ticks` since the start
BatchAfter(out, iterations, period, ticks) ==
    LET done == Sum(out)
        estimate == IF ticks > 0 THEN FloorOf(period * done, ticks)
                    ELSE 2 * out[Len(out)]
    IN ClampedInto(estimate, 1, iterations - done)

\* C27: the first batch const_time_partition yields is 1; every later batch
\* is floor(period * done / elapsed) when elapsed > 0 and twice the previous
\* batch when elapsed = 0, clamped into [1, iterations remaining], where
\* done is the sum of the batches yielded before it and elapsed the timer
\* reading taken when the generator was resumed.
C27_NextBatchRule ==
    /\ [](gen.out # <<>> => gen.out[1] = 1)
    /\ [][(gen.pc = "yielded" /\ gen'.pc = "yielded") =>
             gen'.out = Append(gen.out,
                               BatchAfter(gen.out, gen.iterations, gen.period,
                                          gen'.elapsed))]_vars

\* The generator has yielded 1, then 2 (a doubling, or a floor of 2), and
\* now a batch that is the floor of an inexact quotient, above 1 and within
\* the iterations remaining, so neither clamp changed it.
C27_Witness ==
    LET n == Len(gen.out)
        done == Sum(SubSeq(gen.out, 1, n - 1))
    IN /\ gen.pc = "yielded"
       /\ n >= 3
       /\ gen.out[2] = 2
       /\ gen.elapsed > 0
       /\ (gen.period * done) % gen.elapsed # 0
       /\ gen.out[n] = (gen.period * done) \div gen.elapsed
       /\ gen.out[n] > 1
       /\ gen.out[n] <= gen.iterations - done
----------------------------------------------------------------------------
(***************************************************************************)
(* The progress counter of an _update call, against the iterations the     *)
(* engines have run.                                                       *)
(***************************************************************************)
\* the chain-iterations the engines have run: every instance, its chains
\* times its iterations
ChainIterations ==
    IF run.use_threads
    THEN Sum([c \in Consoles |-> mc.chains_per_console[c] * eng[c].iters])
    ELSE run.chains * eng[1].iters

\* the chain-iterations of batches that are run and not yet reported
Unreported ==
    IF run.use_threads
    THEN Sum([c \in Consoles |->
                IF w[c].pc = "report"
                THEN mc.chains_per_console[c] * w[c].gen.next ELSE 0])
    ELSE 0

\* _update has returned: no failure, no cancellation
UpdateCompleted ==
    \/ run.pc = "returned"
    /\ run.pc = "update"
    /\ IF run.use_threads THEN px.pc = "returned" ELSE gen.pc = "done"

----------------------------------------------------------------------------
(***************************************************************************)
(* Specification of _update_parallel under fair scheduling: as long as the *)
(* calling thread or a pool thread can take a step, or an engine update    *)
(* call is in flight, one of them takes a step or such a call returns or   *)
(* raises.  This asks less than fairness to every thread.  A               *)
(* KeyboardInterrupt may arrive or not.                                    *)
(***************************************************************************)
\* a step of the calling thread, of a pool thread or of the engine
ThreadStep ==
    \/ Submit
    \/ Take
    \/ \E c \in Consoles : CheckFlag(c)
    \/ \E c \in Consoles : CallUpdate(c)
    \/ \E c \in Consoles : UpdateReturns(c)
    \/ \E c \in Consoles : UpdateRaises(c)
    \/ \E c \in Consoles : Report(c)
    \/ WaitReturns
    \/ CollectResults
    \/ ShutdownReturns

ParallelFairness == WF_vars(ThreadStep)

ParallelFairInit ==
    /\ MoreIdle
    /\ \E iterations \in 0..MaxFairIterations :
          px = [pc |-> "submit", iterations |-> iterations, submitted |-> 0,
                exc |-> "none", kbd |-> "none"]
    /\ executor = [queue |-> <<>>, busy |-> 0]
    /\ w = [c \in Consoles |-> WIdle]
    /\ interrupt = FALSE
    /\ gen = GenIdle
    /\ mc = McIdle
    /\ mcx = McxIdle
    /\ monitors = MonitorsIdle
    /\ sx = SxIdle

ParallelFairSpec ==
    ParallelFairInit /\ [][ParallelNext]_vars /\ ParallelFairness

\* the instances whose update loop is running
RunningLoops == {c \in Consoles : w[c].pc \in RunningPcs}

\* the update loop of instance c was started and has finished, by running
\* out of batches, by the flag or by an exception
LoopFinished(c) == w[c].pc \in {"finished", "failed"}

\* C30 as stated: the call eventually returns or raises, at most `threads`
\* update loops run at once, and the loop of every instance is eventually
\* started and finished.
C30_EveryLoopRuns ==
    /\ <>ParallelEnded
    /\ [](Cardinality(RunningLoops) <= Threads)
    /\ <>(\A c \in Consoles : LoopFinished(c))

\* C30 as amended: the call eventually returns or raises, at most `threads`
\* update loops run at once, and the loop of every instance whose work item
\* was submitted is eventually started and finished; every instance is
\* submitted unless a KeyboardInterrupt arrives while the work items are
\* being submitted.
C30_EverySubmittedLoopRuns ==
    /\ <>ParallelEnded
    /\ [](Cardinality(RunningLoops) <= Threads)
    /\ \A c \in Consoles : (w[c].pc = "pending") ~> LoopFinished(c)
    /\ <>(px.kbd = "submit" \/ \A c \in Consoles : LoopFinished(c))

\* With fewer pool threads than instances, a call of the largest number of
\* iterations has returned and the loop of every instance has finished.
C30_Witness ==
    /\ Threads < NumConsoles
    /\ px.pc = "returned"
    /\ px.kbd = "none"
    /\ px.iterations = MaxFairIterations
    /\ \A c \in Consoles : w[c].pc = "finished"
----------------------------------------------------------------------------
(***************************************************************************)
(* The calling thread's engine operations after a parallel update.  In     *)
(* RunSpec the calling thread leaves _update when run.pc leaves "update":  *)
(* by RunDumpMonitors (dumpMonitors, then clearMonitor in the finally      *)
(* clause) or by RunUpdateRaised (clearMonitor in the finally clause).     *)
(***************************************************************************)
\* a pool thread is inside console.update of instance c, or will enter it:
\* its work item is queued, or its loop runs
WorkerMayUpdate(c) ==
    \/ w[c].pc \in RunningPcs \cup {"pending"}
    \/ w[c].inflight > 0
    \/ w[c].runners > 0

\* control has left _update_parallel: the calling thread is about to make,
\* or has made, its next engine operations
CallerLeftUpdate ==
    /\ run.use_threads
    /\ \/ run.pc = "update" /\ ParallelEnded
       \/ run.pc \in {"returned", "raised"}

\* C31: once control has left _update_parallel, and so whenever the calling
\* thread invokes a further engine operation, no pool thread is inside an
\* engine update or about to start one, on any instance: whether the update
\* returned, a worker failed or a KeyboardInterrupt arrived, all workers
\* have stopped.
C31_NoEngineCallWhileWorkersRun ==
    CallerLeftUpdate =>
       /\ WorkersStopped
       /\ \A c \in Consoles : ~WorkerMayUpdate(c)

\* sample() has raised a KeyboardInterrupt that arrived inside wait(): the
\* flag stopped one worker with iterations left, another worker had failed,
\* and nothing runs any more.
C31_Witness ==
    /\ run.use_threads
    /\ run.pc = "raised"
    /\ px.kbd = "wait"
    /\ interrupt
    /\ \E c \in Consoles : w[c].pc = "finished" /\ w[c].gen.left > 0
    /\ \E c \in Consoles : w[c].pc = "failed"
    /\ \A c \in Consoles : ~WorkerMayUpdate(c)
----------------------------------------------------------------------------
\* C32: on a Model over several engine instances, adapt returns True after
\* its batches only if checkAdaptation is true on every instance, and the
\* batches are run whenever some instance is adapting.
C32_TrueOnlyIfAllAdapted ==
    /\ (run.pc = "adapted" /\ run.adapting /\ run.result) =>
          \A c \in RunConsoles : run.answers[c]
    /\ (run.pc = "adapted" /\ run.adapting) =>
          \A c \in RunConsoles : run.checked[c] = run.iterations
----------------------------------------------------------------------------
(***************************************************************************)
(* Specification of the refresh period: a Model constructed with any of    *)
(* the arguments tried, on a terminal or not, then update, sample and      *)
(* adapt calls.                                                            *)
(***************************************************************************)
RefreshInit ==
    /\ \E given \in RefreshArgs, isatty \in BOOLEAN :
          rf = [RfIdle EXCEPT !.pc = "construct", !.given = given,
                              !.isatty = isatty]
    /\ OthersIdle("rf")
    /\ codec = CodecIdle
    /\ gen = GenIdle
    /\ mc = McIdle
    /\ mcx = McxIdle
    /\ monitors = MonitorsIdle
    /\ sx = SxIdle
    /\ ParallelIdle
    /\ dm = DmIdle
    /\ pb = PbIdle
    /\ upd = [t \in BarIds |-> UpdIdle]
    /\ ctor = CtorIdle
    /\ elog = <<>>
    /\ eng = EngIdle
    /\ run = RunIdle

RefreshNext ==
    \/ RefreshConstruct
    \/ \E op \in {"update", "sample", "adapt"} : RefreshCall(op)

RefreshSpec == RefreshInit /\ [][RefreshNext]_vars

\* C33: in every update, sample and adapt call the partitioner and the
\* progress bar use the same period; it is the refresh_seconds the caller
\* passed to Model when one was passed, terminal or not, and otherwise 0.5
\* seconds on a terminal and 5.0 seconds elsewhere.
C33_GivenPeriodUsed ==
    \A i \in DOMAIN rf.calls :
       /\ rf.calls[i].partition = rf.calls[i].bar
       /\ rf.given.kind # "none" => rf.calls[i].partition = rf.given.val
       /\ rf.given.kind = "none" =>
             rf.calls[i].partition =
                IF rf.isatty THEN TtyDefault ELSE NonTtyDefault
=========================================================================
